---- MODULE Spec2Model ----
(***************************************************************************)
(* Verification model of generic_utils:                                    *)
(*   - collections/pipeline.py      Pipeline.start and transition filters  *)
(*   - execution_context/__init__.py ExecutionContextStack, the scopes it  *)
(*     holds and the AsExecutionContext scoped block                       *)
(*   - config/__init__.py           Config, ReadOnlyConfig and             *)
(*     get_config_value                                                    *)
(* SpecPipeline runs one call of Pipeline.start step by step.              *)
(* SpecStack drives one ExecutionContextStack through its operations.      *)
(* SpecAsCtx nests AsExecutionContext blocks around stack operations.      *)
(* SpecMarkers pushes and pops context objects that hold no data.          *)
(* SpecCopy adds a second stack object, a clone or a restored state.       *)
(* SpecThreads lets two threads use the same stack and scopes.             *)
(* SpecConfig adds providers to configs and looks keys up.                 *)
(* SpecReadOnly applies the public operations to a ReadOnlyConfig.         *)
(* SpecCast calls get_config_value with candidate types.                   *)
(* SpecDerive derives pipelines with with_starting_stage.                  *)
(* SpecConstruct constructs pipelines from stages and filter arguments.    *)
(* SpecExtend pushes lists with extend and AsExecutionContext entries.     *)
(* SpecDecorator calls a function decorated with AsExecutionContext.       *)
(* SpecImmutable constructs ImmutableMixin objects in and out of           *)
(*   ImmutableDelay blocks (base_utils.py).                                *)
(* SpecLog queries a LogLevelProviderCollection over in-memory providers   *)
(*   (loggingtools/loggingconfig.py).                                      *)
(***************************************************************************)
EXTENDS Integers, Sequences, FiniteSets, TLC

VARIABLES
    \* ---- Pipeline ----
    stage_functions,      \* Pipeline._stage_functions
    transition_filters,   \* Pipeline._transition_filters
    args,                 \* the caller's argument of start()
    pc,                   \* position inside start()
    idx,                  \* loop variable of start()
    fidx,                 \* number of filters already run in this transition
    intermediate_result,  \* local of start() / _execute_transition_filters
    should_continue,      \* first element of _execute_transition_filters' result
    calls,                \* every stage and filter invocation, in order
    raised,               \* exception that left start()
    returned,             \* value start() returned
    \* ---- ExecutionContextStack ----
    current_stack,        \* _thread_local.execution_context_stack (bottom first)
    ctx_data,             \* contents of each scope that is on the stack
    last_op,              \* the last operation, its arguments and its outcome
    \* ---- AsExecutionContext ----
    blocks,               \* the open blocks, outermost first
    \* ---- a second stack object (a clone, or one restored from a state) ----
    clone_stack,          \* its execution_context_stack (bottom first)
    \* ---- a second thread using the same objects ----
    peer_stack,           \* the stack's execution_context_stack in that thread
    peer_data,            \* the contents of each scope in that thread
    \* ---- Config ----
    conf_dict,            \* Config._config_dict of every config object
    conf_providers,       \* Config._config_providers of every config object
    conf_attrs,           \* the instance attributes callers have set on it
    conf_readonly,        \* whether the object is a ReadOnlyConfig
    conf_op,              \* the last Config operation and its outcome
    \* ---- get_config_value ----
    cast_call,            \* the last call of get_config_value and its result
    \* ---- Pipeline construction and derivation ----
    parent,               \* the pipeline with_starting_stage was called on
    pipe_op,              \* the last constructor / method call and its outcome
    \* ---- ImmutableMixin / ImmutableDelay ----
    backlog,              \* _immutable_delay_locals.backlog_stack (outermost first)
    imm_objs,             \* every ImmutableMixin object: its __dict__, as far as used
    imm_op,               \* the last operation on an object or block, and its outcome
    \* ---- LogLevelProvider / LogLevelProviderCollection ----
    log_now,              \* what utcnow() returns
    log_prov,             \* every InMemoryLogLevelProvider's fields
    log_coll,             \* the LogLevelProviderCollection's fields
    log_op,               \* the last query and what it returned
    \* ---- AsExecutionContext used as a decorator ----
    decorator,            \* the instance's _execution_contexts and _entry_point
    frames                \* each thread's calls of the decorated function in progress

pipeline_vars == <<stage_functions, transition_filters, args, pc, idx, fidx,
                   intermediate_result, should_continue, calls, raised, returned>>
stack_vars == <<current_stack, ctx_data, last_op>>
copy_vars == <<clone_stack>>
thread_vars == <<peer_stack, peer_data>>
config_vars == <<conf_dict, conf_providers, conf_attrs, conf_readonly, conf_op>>
derive_vars == <<parent, pipe_op>>
immutable_vars == <<backlog, imm_objs, imm_op>>
log_vars == <<log_now, log_prov, log_coll, log_op>>
decorator_vars == <<decorator, frames>>
more_vars == <<immutable_vars, log_vars, decorator_vars>>
ext_vars == <<copy_vars, thread_vars, config_vars, cast_call, derive_vars, more_vars>>
vars == <<pipeline_vars, stack_vars, blocks, ext_vars>>

(***************************************************************************)
(* Bounds of the model                                                     *)
(***************************************************************************)
MaxStages == 3
MaxFilters == 2
MaxCtx == 2
MaxDepth == 2
MaxMarkers == 1

\* Python's None, kept apart from every number a stage can produce.
None == -1

RECURSIVE SeqsUpTo(_, _)
SeqsUpTo(S, n) ==
    IF n = 0 THEN {<<>>}
    ELSE LET shorter == SeqsUpTo(S, n - 1)
         IN  shorter \cup {Append(s, e) : s \in {t \in shorter : Len(t) = n - 1}, e \in S}

Range(s) == {s[i] : i \in 1..Len(s)}

\* The smallest element of a set of positions.
Lowest(S) == CHOOSE i \in S : \A j \in S : i <= j

\* The first position of func in a list that holds it.
FirstOccurrence(stages, func) == Lowest({i \in 1..Len(stages) : stages[i] = func})

(***************************************************************************)
(* Pipeline: stages and transition filters                                 *)
(***************************************************************************)
\* The stage functions the pipelines are built from: x + 1, x + 2 (the tests'
\* a, b, stage_c) and one stage that is not a translation, x * 2.
StageFuncs == {[op |-> "add", c |-> 1], [op |-> "add", c |-> 2], [op |-> "mul", c |-> 2]}

Apply(f, x) == IF f.op = "add" THEN x + f.c ELSE x * f.c

\* The stage functions an exit filter watches for.
ExitStages == {[op |-> "add", c |-> 1], [op |-> "mul", c |-> 2]}

\* The transition filters: pass the value on, add one to it, or raise a
\* success / error exit once a given stage has run (as the tests' filters do).
FilterFuncs ==
    {[kind |-> "pass", on |-> [op |-> "add", c |-> 1]],
     [kind |-> "inc", on |-> [op |-> "add", c |-> 1]]}
    \cup {[kind |-> "success_exit", on |-> f] : f \in ExitStages}
    \cup {[kind |-> "error_exit", on |-> f] : f \in ExitStages}

Args == {1, 2}

\* No with_starting_stage call has made the running pipeline.
NoParent == [stages |-> <<>>, filters |-> <<>>, derived |-> FALSE]

\* A function that is no stage (the tests' d), and None in place of one.
NotAStage == [op |-> "add", c |-> 0]
NoFunc == [op |-> "none", c |-> 0]

NoPipeOp == [op |-> "init", func |-> NoFunc, exc |-> "none", ret |-> NoFunc,
             before |-> [stages |-> <<>>, filters |-> <<>>]]

NoExc == [type |-> "none", intermediate_result |-> None]

\* What filter(pipeline, stage_func, value) does: the value it returns, or the
\* exit it raises together with the payload it puts into the exception; calling
\* a value that is not callable raises TypeError.
FilterOutcome(flt, stage_func, value) ==
    CASE flt.kind = "pass" -> [how |-> "return", value |-> value]
      [] flt.kind = "inc" -> [how |-> "return", value |-> value + 1]
      [] flt.kind = "success_exit" ->
            IF stage_func = flt.on
            THEN [how |-> "PipelineSuccessExit", value |-> value + 100]
            ELSE [how |-> "return", value |-> value]
      [] flt.kind = "error_exit" ->
            IF stage_func = flt.on
            THEN [how |-> "PipelineErrorExit", value |-> value + 200]
            ELSE [how |-> "return", value |-> value]
      [] OTHER -> [how |-> "TypeError", value |-> None]

\* len(self)
PipelineLen == Len(stage_functions)

\* The argument stage idx is invoked with (start(), the if/else on idx == 0).
StageInput_first_args(i) == args
StageInput(i) == IF i = 0 THEN args ELSE intermediate_result

\* Whether the argument is the caller's *args/**kwargs or one positional value.
StageArgForm(i) == IF i = 0 THEN "caller_args" ELSE "one_positional"

\* idx < num_of_stage_funcs - 1: a transition follows stage idx.
HasTransition_not_after_first(i) == 0 < i /\ i < PipelineLen - 1
HasTransition(i) == i < PipelineLen - 1

StageCall(i, x, r) ==
    [fn |-> "stage", pos |-> i, fi |-> 0, stage |-> stage_functions[i + 1],
     form |-> StageArgForm(i), pipeline |-> "self", arg |-> x, how |-> "return", ret |-> r]

FilterCall(i, j, x, out) ==
    [fn |-> "filter", pos |-> i, fi |-> j, stage |-> stage_functions[i + 1],
     form |-> "pipeline_stage_value", pipeline |-> "self", arg |-> x,
     how |-> out.how, ret |-> out.value]

\* A Pipeline(*stage_functions, transition_filters=...) has been constructed
\* and start(args) is about to be called; the execution context stack is not
\* touched by a pipeline.
InitPipeline ==
    /\ stage_functions \in SeqsUpTo(StageFuncs, MaxStages)
    /\ transition_filters \in SeqsUpTo(FilterFuncs, MaxFilters)
    /\ args \in Args
    /\ pc = "ready"
    /\ idx = 0
    /\ fidx = 0
    /\ intermediate_result = None
    /\ should_continue = TRUE
    /\ calls = <<>>
    /\ raised = NoExc
    /\ returned = None
    /\ current_stack = <<>>
    /\ ctx_data = <<>>
    /\ last_op = "none"
    /\ blocks = <<>>
    /\ clone_stack = <<>>
    /\ peer_stack = <<>>
    /\ peer_data = <<>>
    /\ conf_dict = <<>>
    /\ conf_providers = <<>>
    /\ conf_attrs = <<>>
    /\ conf_readonly = <<>>
    /\ conf_op = "none"
    /\ parent = NoParent
    /\ pipe_op = NoPipeOp
    /\ backlog = <<>>
    /\ imm_objs = <<>>
    /\ imm_op = "none"
    /\ log_now = 0
    /\ log_prov = <<>>
    /\ log_coll = "none"
    /\ log_op = "none"
    /\ decorator = "none"
    /\ frames = <<>>
    /\ cast_call = "none"

\* start(): intermediate_result = None, then the loop is entered (or skipped
\* when the pipeline has no stage).
Start ==
    /\ pc = "ready"
    /\ intermediate_result' = None
    /\ idx' = 0
    /\ pc' = IF PipelineLen = 0 THEN "return" ELSE "stage"
    /\ UNCHANGED <<stage_functions, transition_filters, args, fidx, should_continue,
                   calls, raised, returned>>
    /\ UNCHANGED <<stack_vars, blocks, ext_vars>>

\* One iteration of the loop up to the transition: the stage is invoked and its
\* result becomes the intermediate result; the last stage breaks the loop.
RunStage ==
    /\ pc = "stage"
    /\ LET func == stage_functions[idx + 1]
           x == StageInput(idx)
           r == Apply(func, x)
       IN  /\ intermediate_result' = r
           /\ calls' = Append(calls, StageCall(idx, x, r))
    /\ fidx' = 0
    /\ pc' = IF HasTransition(idx) THEN "filters" ELSE "return"
    /\ UNCHANGED <<stage_functions, transition_filters, args, idx, should_continue,
                   raised, returned>>
    /\ UNCHANGED <<stack_vars, blocks, ext_vars>>

\* The value _execute_transition_filters hands back on a success exit.
SuccessExitResult_keep(payload) == intermediate_result
SuccessExitResult(payload) == payload

\* The exception that leaves start() on an error exit: both except clauses
\* re-raise the filter's exception as it is.
ErrorExitRaised_wrapped(payload) == [type |-> "PipelineException", intermediate_result |-> None]
ErrorExitRaised(payload) == [type |-> "PipelineErrorExit", intermediate_result |-> payload]

\* The value the next filter (or stage) sees after a filter returned.
FilterResult_drop(out, value) == value
FilterResult(out, value) == out.value

\* _execute_transition_filters, one filter: its return value is carried on, a
\* success exit ends the loop of start() with the exit's payload, an error exit
\* is re-raised and leaves start().
RunFilter ==
    /\ pc = "filters"
    /\ fidx < Len(transition_filters)
    /\ LET flt == transition_filters[fidx + 1]
           func == stage_functions[idx + 1]
           out == FilterOutcome(flt, func, intermediate_result)
       IN  /\ calls' = Append(calls, FilterCall(idx, fidx, intermediate_result, out))
           /\ CASE out.how = "return" ->
                     /\ intermediate_result' = FilterResult(out, intermediate_result)
                     /\ fidx' = fidx + 1
                     /\ pc' = "filters"
                     /\ UNCHANGED <<should_continue, raised>>
                [] out.how = "PipelineSuccessExit" ->
                     /\ intermediate_result' = SuccessExitResult(out.value)
                     /\ should_continue' = FALSE
                     /\ pc' = "return"
                     /\ UNCHANGED <<fidx, raised>>
                [] out.how = "PipelineErrorExit" ->
                     /\ raised' = ErrorExitRaised(out.value)
                     /\ pc' = "raised"
                     /\ UNCHANGED <<fidx, intermediate_result, should_continue>>
                [] out.how = "TypeError" ->
                     /\ raised' = [type |-> "TypeError", intermediate_result |-> None]
                     /\ pc' = "raised"
                     /\ UNCHANGED <<fidx, intermediate_result, should_continue>>
    /\ UNCHANGED <<stage_functions, transition_filters, args, idx, returned>>
    /\ UNCHANGED <<stack_vars, blocks, ext_vars>>

\* Every filter has returned: (True, intermediate_result), and the loop of
\* start() goes on with the next stage.
FiltersReturn ==
    /\ pc = "filters"
    /\ fidx = Len(transition_filters)
    /\ should_continue' = TRUE
    /\ idx' = idx + 1
    /\ pc' = "stage"
    /\ UNCHANGED <<stage_functions, transition_filters, args, fidx, intermediate_result,
                   calls, raised, returned>>
    /\ UNCHANGED <<stack_vars, blocks, ext_vars>>

\* return intermediate_result
Return ==
    /\ pc = "return"
    /\ returned' = intermediate_result
    /\ pc' = "done"
    /\ UNCHANGED <<stage_functions, transition_filters, args, idx, fidx,
                   intermediate_result, should_continue, calls, raised>>
    /\ UNCHANGED <<stack_vars, blocks, ext_vars>>


NextPipeline ==
    \/ Start
    \/ RunStage
    \/ RunFilter
    \/ FiltersReturn
    \/ Return

(***************************************************************************)
(* Pipeline: construction, with_starting_stage and _get_next_stage         *)
(***************************************************************************)
MaxSharedFilters == 1

\* The functions callers hand to with_starting_stage and _get_next_stage.
StageArgs == StageFuncs \cup {NotAStage}

\* _get_stage_index with list.index replaced by the last position of func.
GetStageIndex_last_occurrence(stages, func) ==
    IF func \in Range(stages)
    THEN [exc |-> "none",
          index |-> (CHOOSE i \in 1..Len(stages) :
                        stages[i] = func /\ \A j \in (i + 1)..Len(stages) : stages[j] # func) - 1]
    ELSE [exc |-> "InvalidStageException", index |-> 0]

\* _get_stage_index(func): self._stage_functions.index(func), the first
\* position of func counted from 0; ValueError becomes InvalidStageException.
GetStageIndex(stages, func) ==
    IF func \in Range(stages)
    THEN [exc |-> "none", index |-> Lowest({i \in 1..Len(stages) : stages[i] = func}) - 1]
    ELSE [exc |-> "InvalidStageException", index |-> 0]

\* with_starting_stage(start_from_stage): a new pipeline of the same class
\* from the slice self._stage_functions[func_index:] and self's filters; self
\* is not assigned to.
WithStartingStageResult(stages, filters, start_from_stage) ==
    LET at == GetStageIndex(stages, start_from_stage)
    IN  [exc |-> at.exc, self_stages |-> stages, self_filters |-> filters,
         new_stages |-> IF at.exc = "none" THEN SubSeq(stages, at.index + 1, Len(stages))
                        ELSE <<>>,
         new_filters |-> IF at.exc = "none" THEN filters ELSE <<>>]

\* _get_next_stage(func) without the check that func is a stage.
GetNextStageResult_unchecked(stages, func) ==
    IF func \in Range(stages) /\ FirstOccurrence(stages, func) < Len(stages)
    THEN [exc |-> "none", ret |-> stages[FirstOccurrence(stages, func) + 1]]
    ELSE IF func = NoFunc /\ stages # <<>> THEN [exc |-> "none", ret |-> stages[1]]
    ELSE [exc |-> "none", ret |-> NoFunc]

\* _get_next_stage(func): position 0 when func is None, else the position
\* after func's; IndexError becomes None.
GetNextStageResult(stages, func) ==
    LET at == IF func # NoFunc THEN GetStageIndex(stages, func)
              ELSE [exc |-> "none", index |-> -1]
        func_idx == at.index + 1
    IN  IF at.exc # "none" THEN [exc |-> at.exc, ret |-> NoFunc]
        ELSE IF func_idx < Len(stages) THEN [exc |-> "none", ret |-> stages[func_idx + 1]]
        ELSE [exc |-> "none", ret |-> NoFunc]

\* A Pipeline(*stage_functions, transition_filters=...) has been constructed;
\* its methods and start(args) can be called.
InitDerive ==
    /\ stage_functions \in SeqsUpTo(StageFuncs, MaxStages)
    /\ transition_filters \in SeqsUpTo(FilterFuncs, MaxSharedFilters)
    /\ args \in Args
    /\ pc = "ready"
    /\ idx = 0
    /\ fidx = 0
    /\ intermediate_result = None
    /\ should_continue = TRUE
    /\ calls = <<>>
    /\ raised = NoExc
    /\ returned = None
    /\ parent = NoParent
    /\ pipe_op = NoPipeOp
    /\ backlog = <<>>
    /\ imm_objs = <<>>
    /\ imm_op = "none"
    /\ log_now = 0
    /\ log_prov = <<>>
    /\ log_coll = "none"
    /\ log_op = "none"
    /\ decorator = "none"
    /\ frames = <<>>
    /\ current_stack = <<>>
    /\ ctx_data = <<>>
    /\ last_op = "none"
    /\ blocks = <<>>
    /\ clone_stack = <<>>
    /\ peer_stack = <<>>
    /\ peer_data = <<>>
    /\ conf_dict = <<>>
    /\ conf_providers = <<>>
    /\ conf_attrs = <<>>
    /\ conf_readonly = <<>>
    /\ conf_op = "none"
    /\ cast_call = "none"

not_pipeline_vars == <<stack_vars, blocks, copy_vars, thread_vars, config_vars, cast_call,
                       more_vars>>

\* self._get_next_stage(func) on a pipeline that has not been started.
GetNextStage(func) ==
    /\ pc = "ready"
    /\ ~parent.derived
    /\ LET res == GetNextStageResult(stage_functions, func)
       IN  pipe_op' = [op |-> "_get_next_stage", func |-> func, exc |-> res.exc,
                       ret |-> res.ret,
                       before |-> [stages |-> stage_functions, filters |-> transition_filters]]
    /\ UNCHANGED <<pipeline_vars, parent, not_pipeline_vars>>

\* new = self.with_starting_stage(func); from here on the running pipeline is
\* new, and parent is self as the call left it.
WithStartingStage(func) ==
    /\ pc = "ready"
    /\ ~parent.derived
    /\ LET res == WithStartingStageResult(stage_functions, transition_filters, func)
       IN  /\ pipe_op' = [op |-> "with_starting_stage", func |-> func, exc |-> res.exc,
                          ret |-> NoFunc,
                          before |-> [stages |-> stage_functions,
                                      filters |-> transition_filters]]
           /\ IF res.exc = "none"
              THEN /\ parent' = [stages |-> res.self_stages, filters |-> res.self_filters,
                                 derived |-> TRUE]
                   /\ stage_functions' = res.new_stages
                   /\ transition_filters' = res.new_filters
              ELSE /\ parent' = parent
                   /\ stage_functions' = res.self_stages
                   /\ transition_filters' = res.self_filters
    /\ UNCHANGED <<args, pc, idx, fidx, intermediate_result, should_continue, calls, raised,
                   returned, not_pipeline_vars>>

NextDerive ==
    \/ \E f \in StageArgs \cup {NoFunc} : GetNextStage(f)
    \/ \E f \in StageArgs : WithStartingStage(f)
    \/ Start
    \/ RunStage
    \/ RunFilter
    \/ FiltersReturn
    \/ Return

\* Values that are not callable: one that is true (a number, a string) and
\* one that is false (None, 0, the empty string).
NonCallables == {[kind |-> "true_value", on |-> NoFunc], [kind |-> "false_value", on |-> NoFunc]}

\* callable(trans_filter)
Callable(trans_filter) == trans_filter \notin NonCallables

\* bool(trans_filter)
IsTrue(trans_filter) == trans_filter.kind # "false_value"

\* What callers pass as transition_filters: nothing (None), one value, or a
\* list of values.
FilterArgs ==
    {[form |-> "none", values |-> <<>>]}
    \cup {[form |-> "single", values |-> <<v>>] : v \in FilterFuncs \cup NonCallables}
    \cup {[form |-> "list", values |-> vs] :
            vs \in SeqsUpTo(FilterFuncs \cup NonCallables, MaxSharedFilters)}

\* as_iterable(obj): [] for None, the object itself when it is iterable, else
\* [obj].
AsIterable(arg) == arg.values

\* Pipeline.__init__: PipelineException for an element of the filters that is
\* true and not callable.
ConstructResult(stage_funcs, arg) ==
    LET filters == AsIterable(arg)
    IN  IF \E i \in 1..Len(filters) : IsTrue(filters[i]) /\ ~Callable(filters[i])
        THEN [exc |-> "PipelineException", stages |-> <<>>, filters |-> <<>>]
        ELSE [exc |-> "none", stages |-> stage_funcs, filters |-> filters]

\* No pipeline has been constructed yet.
InitConstruct ==
    /\ stage_functions = <<>>
    /\ transition_filters = <<>>
    /\ args \in Args
    /\ pc = "unbuilt"
    /\ idx = 0
    /\ fidx = 0
    /\ intermediate_result = None
    /\ should_continue = TRUE
    /\ calls = <<>>
    /\ raised = NoExc
    /\ returned = None
    /\ parent = NoParent
    /\ pipe_op = NoPipeOp
    /\ backlog = <<>>
    /\ imm_objs = <<>>
    /\ imm_op = "none"
    /\ log_now = 0
    /\ log_prov = <<>>
    /\ log_coll = "none"
    /\ log_op = "none"
    /\ decorator = "none"
    /\ frames = <<>>
    /\ current_stack = <<>>
    /\ ctx_data = <<>>
    /\ last_op = "none"
    /\ blocks = <<>>
    /\ clone_stack = <<>>
    /\ peer_stack = <<>>
    /\ peer_data = <<>>
    /\ conf_dict = <<>>
    /\ conf_providers = <<>>
    /\ conf_attrs = <<>>
    /\ conf_readonly = <<>>
    /\ conf_op = "none"
    /\ cast_call = "none"

\* Pipeline(*stage_funcs, transition_filters=arg): the object exists once
\* __init__ has returned.
ConstructPipeline ==
    /\ pc = "unbuilt"
    /\ \E stage_funcs \in SeqsUpTo(StageFuncs, MaxStages), arg \in FilterArgs :
          LET res == ConstructResult(stage_funcs, arg)
          IN  /\ pipe_op' = [NoPipeOp EXCEPT !.op = "__init__", !.exc = res.exc]
              /\ stage_functions' = res.stages
              /\ transition_filters' = res.filters
              /\ pc' = IF res.exc = "none" THEN "ready" ELSE "unbuilt"
    /\ UNCHANGED <<args, idx, fidx, intermediate_result, should_continue, calls, raised,
                   returned, parent, not_pipeline_vars>>

NextConstruct ==
    \/ ConstructPipeline
    \/ Start
    \/ RunStage
    \/ RunFilter
    \/ FiltersReturn
    \/ Return

(***************************************************************************)
(* ExecutionContextStack and its scopes                                    *)
(***************************************************************************)
CtxIds == 1..MaxCtx

\* Further ThreadLocalExecutionContext instances on which nothing is ever set;
\* they are pushed only to mark positions of the stack (keep_context and
\* top_context of the tests).
Markers == (MaxCtx + 1)..(MaxCtx + MaxMarkers)

Contexts == CtxIds \cup Markers

\* The object copy.deepcopy makes of scope c (BaseExecutionContext.__deepcopy__
\* builds a new instance with cls.__new__).
CopyOf(c) == c + MaxCtx + MaxMarkers

Copies == {CopyOf(c) : c \in CtxIds}

\* Every BaseExecutionContext instance of the model.
Objects == Contexts \cup Copies

\* An object that is not a BaseExecutionContext (the tests push a dict).
NotAContext == 0

Keys == {"a", "b"}

\* The key/value pairs the operations write.
KeyValues == {<<"a", 1>>, <<"a", 2>>, <<"b", 1>>}

\* The attribute is not set on the scope's thread-local (AttributeError).
Missing == 0

\* generic_utils.NOTSET, the "no default supplied" sentinel.
NOTSET == -2

Defaults == {NOTSET, None, 1}

EmptyScope == [k \in Keys |-> Missing]

\* The mappings bulk_set is called with (Missing: the key is not in the dict).
Mappings ==
    {[a |-> 1, b |-> Missing], [a |-> 2, b |-> 1], [a |-> Missing, b |-> 1]}

NoBlock == [entry_point |-> NotAContext, entry_stack |-> <<>>, body |-> "intact"]

NoOp == [op |-> "init", key |-> "-", arg |-> 0, mapping |-> EmptyScope, exc |-> "none",
         ret |-> None, popped |-> <<>>, blk |-> NoBlock, explicit |-> FALSE,
         thread |-> "A", contexts |-> <<>>]

Top(stack) == stack[Len(stack)]

ButLast(stack) == SubSeq(stack, 1, Len(stack) - 1)

\* ThreadLocalExecutionContext.get(key) on scope c: the value, or Missing when
\* getattr raises AttributeError (ExecutionContextValueDoesNotExist).
ScopeGet(data, c, key) == data[c][key]

\* ThreadLocalExecutionContext.set(key, val) on scope c.
ScopeSet(data, c, key, val) == [data EXCEPT ![c][key] = val]

\* The loop of ExecutionContextStack.get over reversed(current_stack), from
\* position i down: the first scope that holds key decides.
RECURSIVE StackScan(_, _, _, _)
StackScan(stack, data, i, key) ==
    IF i = 0 THEN Missing
    ELSE IF ScopeGet(data, stack[i], key) # Missing
         THEN ScopeGet(data, stack[i], key)
         ELSE StackScan(stack, data, i - 1, key)

\* The same loop walking the stack from the bottom up.
RECURSIVE StackScanUp(_, _, _, _)
StackScanUp(stack, data, i, key) ==
    IF i > Len(stack) THEN Missing
    ELSE IF ScopeGet(data, stack[i], key) # Missing
         THEN ScopeGet(data, stack[i], key)
         ELSE StackScanUp(stack, data, i + 1, key)

StackLookup_bottom_first(stack, data, key) == StackScanUp(stack, data, 1, key)
StackLookup(stack, data, key) == StackScan(stack, data, Len(stack), key)

\* ExecutionContextStack.get(key, default): the default counts as not supplied
\* when it compares equal to NOTSET.
GetResult_none_is_unset(stack, data, key, default) ==
    LET found == StackLookup(stack, data, key)
    IN  IF found # Missing THEN [exc |-> "none", ret |-> found]
        ELSE IF default \in {NOTSET, None}
             THEN [exc |-> "ExecutionContextValueDoesNotExist", ret |-> None]
             ELSE [exc |-> "none", ret |-> default]
GetResult(stack, data, key, default) ==
    LET found == StackLookup(stack, data, key)
    IN  IF found # Missing THEN [exc |-> "none", ret |-> found]
        ELSE IF default = NOTSET
             THEN [exc |-> "ExecutionContextValueDoesNotExist", ret |-> None]
             ELSE [exc |-> "none", ret |-> default]

Result(stack, data, exc, ret, popped) ==
    [stack |-> stack, data |-> data, exc |-> exc, ret |-> ret, popped |-> popped]

\* ExecutionContextStack.push(execution_context)
PushResult_no_duplicate_check(stack, data, x) ==
    IF x \notin Objects
    THEN Result(stack, data, "GenUtilsTypeError", None, <<>>)
    ELSE Result(Append(stack, x), data, "none", None, <<>>)
PushResult(stack, data, x) ==
    IF x \notin Objects
    THEN Result(stack, data, "GenUtilsTypeError", None, <<>>)
    ELSE IF x \in Range(stack)
         THEN Result(stack, data, "GenUtilsValueError", None, <<>>)
         ELSE Result(Append(stack, x), data, "none", None, <<>>)

\* ExecutionContextStack.pop(index): list.pop() / list.pop(index); index is
\* Python's, counted from 0, and NOTSET stands for index=None.
PopResult(stack, data, index) ==
    IF index = NOTSET
    THEN IF stack = <<>>
         THEN Result(stack, data, "IndexError", None, <<>>)
         ELSE Result(ButLast(stack), data, "none", Top(stack), <<>>)
    ELSE IF index >= Len(stack)
         THEN Result(stack, data, "IndexError", None, <<>>)
         ELSE Result(SubSeq(stack, 1, index) \o SubSeq(stack, index + 2, Len(stack)),
                     data, "none", stack[index + 1], <<>>)

\* ExecutionContextStack.extend(execution_contexts): the elements are pushed
\* one by one, and the first one that fails ends the loop with its exception.
ExtendResult_all_or_nothing(stack, data, contexts) ==
    LET bad == {i \in 1..Len(contexts) :
                   \/ contexts[i] \notin Objects
                   \/ contexts[i] \in Range(stack)
                   \/ \E j \in 1..(i - 1) : contexts[j] = contexts[i]}
    IN  IF bad = {} THEN Result(stack \o contexts, data, "none", None, <<>>)
        ELSE IF contexts[Lowest(bad)] \notin Objects
             THEN Result(stack, data, "GenUtilsTypeError", None, <<>>)
             ELSE Result(stack, data, "GenUtilsValueError", None, <<>>)
RECURSIVE ExtendResult(_, _, _)
ExtendResult(stack, data, contexts) ==
    IF contexts = <<>> THEN Result(stack, data, "none", None, <<>>)
    ELSE IF Head(contexts) \notin Objects
         THEN Result(stack, data, "GenUtilsTypeError", None, <<>>)
         ELSE LET pushed == PushResult(stack, data, Head(contexts))
              IN  IF pushed.exc # "none" THEN pushed
                  ELSE ExtendResult(pushed.stack, data, Tail(contexts))

\* A ThreadLocalExecutionContext() the code creates itself: an object no one
\* refers to yet (not on a stack of either stack object or either thread, not
\* the entry point of an open block).
Referenced(stack, blks) ==
    Range(stack) \cup Range(current_stack) \cup Range(clone_stack) \cup Range(peer_stack)
        \cup {blks[i].entry_point : i \in 1..Len(blks)}

CanCreate(stack, blks) == CtxIds \ Referenced(stack, blks) # {}

NewContext(stack, blks) ==
    CHOOSE c \in CtxIds \ Referenced(stack, blks) :
        \A d \in CtxIds \ Referenced(stack, blks) : c <= d

\* ExecutionContextStack.set(key, value): peek(), or on an empty stack a new
\* ThreadLocalExecutionContext is pushed; the value goes into that scope.
SetTarget_bottom(stack) == stack[1]
SetTarget(stack) == Top(stack)

SetResult(stack, data, blks, key, value) ==
    IF stack = <<>>
    THEN LET c == NewContext(stack, blks)
             fresh == [data EXCEPT ![c] = EmptyScope]
         IN  Result(<<c>>, ScopeSet(fresh, c, key, value), "none", None, <<>>)
    ELSE Result(stack, ScopeSet(data, SetTarget(stack), key, value), "none", None, <<>>)

\* ThreadLocalExecutionContext.bulk_set(**kwargs) called the way
\* ExecutionContextStack.bulk_set calls it, with the dict as one positional
\* argument: Python refuses the call (TypeError) before the body runs.
ScopeBulkSetPositional(data, c, mapping) == [data |-> data, exc |-> "TypeError"]

\* ExecutionContextStack.bulk_set(key_value_dict)
BulkSetResult(stack, data, blks, mapping) ==
    LET created == stack = <<>>
        c == IF created THEN NewContext(stack, blks) ELSE Top(stack)
        stack1 == IF created THEN <<c>> ELSE stack
        data1 == IF created THEN [data EXCEPT ![c] = EmptyScope] ELSE data
        written == ScopeBulkSetPositional(data1, c, mapping)
    IN  Result(stack1, written.data, written.exc, None, <<>>)

\* ExecutionContextStack.remove(key): peek(), then the top scope's remove (the
\* test "if context" is true of every ThreadLocalExecutionContext, which
\* defines neither a length nor a truth value).
RemoveResult_nearest_holder(stack, data, key) ==
    LET hs == {i \in 1..Len(stack) : ScopeGet(data, stack[i], key) # Missing}
        h == CHOOSE i \in hs : \A j \in hs : j <= i
    IN  IF stack = <<>>
        THEN Result(stack, data, "ExecutionContextStackEmptyError", None, <<>>)
        ELSE IF hs = {}
             THEN Result(stack, data, "GenUtilsAttributeError", None, <<>>)
             ELSE Result(stack, ScopeSet(data, stack[h], key, Missing), "none", None, <<>>)
RemoveResult(stack, data, key) ==
    IF stack = <<>>
    THEN Result(stack, data, "ExecutionContextStackEmptyError", None, <<>>)
    ELSE IF ScopeGet(data, Top(stack), key) = Missing
         THEN Result(stack, data, "GenUtilsAttributeError", None, <<>>)
         ELSE Result(stack, ScopeSet(data, Top(stack), key, Missing), "none", None, <<>>)

\* The while loop of pop_to_item: pop until exec_context is on top; on a stack
\* that does not hold it the loop empties the stack and current_stack[-1] fails.
RECURSIVE PopLoop_push_order(_, _, _, _)
PopLoop_push_order(stack, data, marker, popped) ==
    IF stack = <<>> THEN Result(stack, data, "IndexError", None, popped)
    ELSE IF Top(stack) = marker THEN Result(stack, data, "none", None, popped)
         ELSE PopLoop_push_order(ButLast(stack), data, marker, <<Top(stack)>> \o popped)
RECURSIVE PopLoop(_, _, _, _)
PopLoop(stack, data, marker, popped) ==
    IF stack = <<>> THEN Result(stack, data, "IndexError", None, popped)
    ELSE IF Top(stack) = marker THEN Result(stack, data, "none", None, popped)
         ELSE PopLoop(ButLast(stack), data, marker, Append(popped, Top(stack)))

\* ExecutionContextStack.pop_to_item(exec_context, raise_exception)
PopToItemResult(stack, data, marker, raise_exception) ==
    IF raise_exception /\ marker \notin Range(stack)
    THEN Result(stack, data, "GenUtilsValueError", None, <<>>)
    ELSE PopLoop(stack, data, marker, <<>>)

\* ExecutionContextStack.clear()
ClearResult(stack, data) == Result(<<>>, data, "none", None, <<>>)


\* What each open block remembers about the body so far: whether a context the
\* stack held at entry has been taken off the stack since, the one that was on
\* top at entry ("top_removed", which stays) or only ones below it
\* ("lower_removed"). The stack at entry is remembered for as long as the
\* context that was on top at entry has stayed on the stack.
NoteRemoved(blks, before, after) ==
    LET gone == Range(before) \ Range(after)
    IN  [i \in 1..Len(blks) |->
            IF blks[i].body = "top_removed" \/ blks[i].entry_point \in gone
            THEN [blks[i] EXCEPT !.body = "top_removed", !.entry_stack = <<>>]
            ELSE IF (gone \cap Range(blks[i].entry_stack)) # {}
                 THEN [blks[i] EXCEPT !.body = "lower_removed"]
                 ELSE blks[i]]

\* The stack operation named op, called with key / arg / mapping, ended as res
\* says.
FinishWith(op, key, arg, mapping, res) ==
    /\ current_stack' = res.stack
    /\ ctx_data' = res.data
    /\ blocks' = NoteRemoved(blocks, current_stack, res.stack)
    /\ last_op' = [op |-> op, key |-> key, arg |-> arg, mapping |-> mapping,
                   exc |-> res.exc, ret |-> res.ret, popped |-> res.popped, blk |-> NoBlock,
                   explicit |-> FALSE, thread |-> "A", contexts |-> <<>>]
    /\ UNCHANGED <<pipeline_vars, ext_vars>>

Finish(op, key, arg, res) == FinishWith(op, key, arg, EmptyScope, res)

\* get(key) when explicit is FALSE (the parameter takes its default, NOTSET),
\* get(key, default) when it is TRUE.
Get(key, explicit, default) ==
    /\ ~explicit => default = NOTSET
    /\ LET got == GetResult(current_stack, ctx_data, key, default)
       IN  /\ last_op' = [NoOp EXCEPT !.op = "get", !.key = key, !.arg = default,
                                      !.exc = got.exc, !.ret = got.ret,
                                      !.explicit = explicit]
           /\ UNCHANGED <<current_stack, ctx_data, blocks, pipeline_vars, ext_vars>>

Push(x) == Finish("push", "-", x, PushResult(current_stack, ctx_data, x))

Pop == Finish("pop", "-", NOTSET, PopResult(current_stack, ctx_data, NOTSET))

PopIndex(index) == Finish("pop", "-", index, PopResult(current_stack, ctx_data, index))

Extend(contexts) ==
    LET res == ExtendResult(current_stack, ctx_data, contexts)
    IN  /\ current_stack' = res.stack
        /\ ctx_data' = res.data
        /\ blocks' = NoteRemoved(blocks, current_stack, res.stack)
        /\ last_op' = [NoOp EXCEPT !.op = "extend", !.arg = Len(contexts),
                                   !.exc = res.exc, !.contexts = contexts]
        /\ UNCHANGED <<pipeline_vars, ext_vars>>

Set(key, value) ==
    /\ current_stack = <<>> => CanCreate(current_stack, blocks)
    /\ Finish("set", key, value, SetResult(current_stack, ctx_data, blocks, key, value))

BulkSet(mapping) ==
    /\ current_stack = <<>> => CanCreate(current_stack, blocks)
    /\ FinishWith("bulk_set", "-", 0, mapping,
                  BulkSetResult(current_stack, ctx_data, blocks, mapping))

\* ExecutionContextStack(initial_context=mapping): a stack that holds nothing
\* yet, then bulk_set(mapping) from __init__.
Construct(mapping) ==
    /\ blocks = <<>>
    /\ CanCreate(<<>>, blocks)
    /\ FinishWith("construct", "-", 0, mapping,
                  BulkSetResult(<<>>, ctx_data, blocks, mapping))

Remove(key) == Finish("remove", key, 0, RemoveResult(current_stack, ctx_data, key))

PopToItem(marker, raise_exception) ==
    Finish("pop_to_item", IF raise_exception THEN "raise" ELSE "quiet", marker,
           PopToItemResult(current_stack, ctx_data, marker, raise_exception))

Clear == Finish("clear", "-", 0, ClearResult(current_stack, ctx_data))

\* ThreadLocalExecutionContext.set called on a scope directly (the tests fill
\* their scopes this way before pushing them).
CtxSet(c, key, value) ==
    Finish("ctx_set", key, c,
           Result(current_stack, ScopeSet(ctx_data, c, key, value), "none", None, <<>>))

\* execution_context_stack = ExecutionContextStack(): an empty stack; the
\* scopes a caller can push hold nothing yet; no pipeline is running.
InitStack ==
    /\ current_stack = <<>>
    /\ ctx_data = [c \in Objects |-> EmptyScope]
    /\ clone_stack = <<>>
    /\ peer_stack = <<>>
    /\ peer_data = [c \in Objects |-> EmptyScope]
    /\ conf_dict = <<>>
    /\ conf_providers = <<>>
    /\ conf_attrs = <<>>
    /\ conf_readonly = <<>>
    /\ conf_op = "none"
    /\ parent = NoParent
    /\ pipe_op = NoPipeOp
    /\ backlog = <<>>
    /\ imm_objs = <<>>
    /\ imm_op = "none"
    /\ log_now = 0
    /\ log_prov = <<>>
    /\ log_coll = "none"
    /\ log_op = "none"
    /\ decorator = "none"
    /\ frames = <<>>
    /\ cast_call = "none"
    /\ last_op = NoOp
    /\ blocks = <<>>
    /\ stage_functions = <<>>
    /\ transition_filters = <<>>
    /\ args = 1
    /\ pc = "idle"
    /\ idx = 0
    /\ fidx = 0
    /\ intermediate_result = None
    /\ should_continue = TRUE
    /\ calls = <<>>
    /\ raised = NoExc
    /\ returned = None

PushArgs == CtxIds \cup {NotAContext}

NextStack ==
    \/ \E k \in Keys, e \in BOOLEAN, d \in Defaults : Get(k, e, d)
    \/ \E x \in PushArgs : Push(x)
    \/ Pop
    \/ \E i \in 0..MaxCtx : PopIndex(i)
    \/ \E cs \in SeqsUpTo(CtxIds, 2) : Extend(cs)
    \/ \E kv \in KeyValues : Set(kv[1], kv[2])
    \/ \E m \in Mappings : BulkSet(m)
    \/ \E m \in Mappings : Construct(m)
    \/ \E k \in Keys : Remove(k)
    \/ \E c \in CtxIds, r \in BOOLEAN : PopToItem(c, r)
    \/ Clear
    \/ \E c \in CtxIds \ Range(current_stack), kv \in KeyValues : CtxSet(c, kv[1], kv[2])

(***************************************************************************)
(* AsExecutionContext                                                      *)
(***************************************************************************)
\* The execution_contexts an AsExecutionContext is constructed with: None, one
\* context, a list of contexts, or an object of another type.
EnterArgs ==
    {[kind |-> "none", ctxs |-> <<>>], [kind |-> "other", ctxs |-> <<>>]}
    \cup {[kind |-> "context", ctxs |-> <<c>>] : c \in CtxIds}
    \cup {[kind |-> "list", ctxs |-> cs] : cs \in SeqsUpTo(CtxIds, 2)}

\* __enter__: what is pushed above the entry point.
EnterResult(stack, data, blks, ec) ==
    CASE ec.kind = "none" ->
            LET c == NewContext(stack, blks)
            IN  PushResult(stack, [data EXCEPT ![c] = EmptyScope], c)
      [] ec.kind = "context" -> PushResult(stack, data, ec.ctxs[1])
      [] ec.kind = "list" -> ExtendResult(stack, data, ec.ctxs)
      [] ec.kind = "other" -> Result(stack, data, "TypeError", None, <<>>)

\* __enter__: peek() gives the entry point (None on an empty stack).
EntryPoint(stack) == IF stack = <<>> THEN NotAContext ELSE Top(stack)

\* with AsExecutionContext(ec): ... is entered; when __enter__ raises, the
\* block's body and its __exit__ never run.
Enter(ec) ==
    /\ Len(blocks) < MaxDepth
    /\ ec.kind = "none" => CanCreate(current_stack, blocks)
    /\ LET res == EnterResult(current_stack, ctx_data, blocks, ec)
           blk == [entry_point |-> EntryPoint(current_stack), entry_stack |-> current_stack,
                   body |-> "intact"]
       IN  /\ current_stack' = res.stack
           /\ ctx_data' = res.data
           /\ blocks' = IF res.exc = "none" THEN Append(blocks, blk) ELSE blocks
           /\ last_op' = [op |-> "enter", key |-> ec.kind, arg |-> Len(ec.ctxs),
                          mapping |-> EmptyScope, exc |-> res.exc, ret |-> None,
                          popped |-> <<>>, blk |-> NoBlock, explicit |-> FALSE,
                          thread |-> "A", contexts |-> ec.ctxs]
    /\ UNCHANGED <<pipeline_vars, ext_vars>>

\* __exit__: pop_to_item(entry point), or clear() when the stack was empty at
\* entry.
ExitResult_always_clear(stack, data, blk) == ClearResult(stack, data)
ExitResult(stack, data, blk) ==
    IF blk.entry_point # NotAContext
    THEN PopToItemResult(stack, data, blk.entry_point, TRUE)
    ELSE ClearResult(stack, data)

\* The innermost block is left, by the end of its body (how = "normal") or by
\* an exception raised in it (how = "exception"); __exit__ runs either way.
Exit(how) ==
    /\ blocks # <<>>
    /\ LET blk == Top(blocks)
           res == ExitResult(current_stack, ctx_data, blk)
       IN  /\ current_stack' = res.stack
           /\ ctx_data' = res.data
           /\ blocks' = NoteRemoved(ButLast(blocks), current_stack, res.stack)
           /\ last_op' = [op |-> "exit", key |-> how, arg |-> 0, mapping |-> EmptyScope,
                          exc |-> res.exc, ret |-> None, popped |-> res.popped,
                          blk |-> blk, explicit |-> FALSE, thread |-> "A",
                          contexts |-> <<>>]
    /\ UNCHANGED <<pipeline_vars, ext_vars>>

\* Blocks are entered and left, and their bodies push and remove contexts.
NextAsCtx ==
    \/ \E ec \in EnterArgs : Enter(ec)
    \/ \E how \in {"normal", "exception"} : Exit(how)
    \/ \E c \in CtxIds \ Range(current_stack) : Push(c)
    \/ current_stack # <<>> /\ Pop
    \/ \E i \in 0..(Len(current_stack) - 1) : PopIndex(i)
    \/ \E c \in Range(current_stack) : PopToItem(c, TRUE)
    \/ Clear

(***************************************************************************)
(* Serialized states and deep copies                                       *)
(***************************************************************************)
\* ThreadLocalExecutionContext.__getstate__: dict(self._thread_local.__dict__),
\* the attributes that are set, as key/value pairs.
ScopeGetState(contents) ==
    {<<k, contents[k]>> : k \in {j \in Keys : contents[j] # Missing}}

\* ThreadLocalExecutionContext.__setstate__: a new threading.local() whose
\* __dict__ is updated with the state.
ScopeSetState_not_applied(state) == EmptyScope
ScopeSetState(state) ==
    [k \in Keys |->
        IF \E p \in state : p[1] = k THEN (CHOOSE p \in state : p[1] = k)[2] ELSE Missing]

\* copy.deepcopy of a scope (BaseExecutionContext.__deepcopy__): a new instance
\* whose _thread_local is a new threading.local() holding a copy of the
\* attributes the calling thread has set.
ScopeDeepCopy(contents) == ScopeSetState(ScopeGetState(contents))

\* copy.deepcopy of the list execution_context_stack: the copies of its scopes
\* in the same order, and the heap with the copies in it. A copy made earlier
\* and not part of this one is no longer referred to.
DeepCopyStack_same_scopes(stack, data) == [stack |-> stack, data |-> data]
DeepCopyStack(stack, data) ==
    [stack |-> [i \in 1..Len(stack) |-> CopyOf(stack[i])],
     data |-> [x \in Objects |->
                 IF x \in Copies
                 THEN IF \E i \in 1..Len(stack) : CopyOf(stack[i]) = x
                      THEN ScopeDeepCopy(data[x - MaxCtx - MaxMarkers])
                      ELSE EmptyScope
                 ELSE data[x]]]

\* ExecutionContextStack.__getstate__: copy.deepcopy(self._thread_local.__dict__)
StackGetState(stack, data) ==
    LET copied == DeepCopyStack(stack, data)
    IN  [execution_context_stack |-> copied.stack, heap |-> copied.data]

\* ExecutionContextStack.__setstate__ on a fresh object: a new threading.local()
\* whose __dict__ is updated with the state.
StackSetState(state) ==
    [stack |-> state.execution_context_stack, data |-> state.heap]

\* The two stack objects of SpecCopy: the one that is copied and the copy.
StackObjects == {"original", "clone"}

ObjStack(obj) == IF obj = "original" THEN current_stack ELSE clone_stack

\* The name under which an operation on obj is recorded.
OpName(obj, op) ==
    IF obj = "original" \/ op \in {"clone", "restore"} THEN op ELSE "clone_" \o op

\* Callers of the original write 1, callers of the copy write 2.
ObjValue(obj) == IF obj = "original" THEN 1 ELSE 2

\* A scope that is on neither stack is referred to by no one any more.
Collected(data, s1, s2) ==
    [x \in Objects |-> IF x \in Range(s1) \cup Range(s2) THEN data[x] ELSE EmptyScope]

\* The operation op on stack object obj ended as res says; the other object's
\* list is not touched.
OnObject(obj, op, key, arg, res) ==
    LET s1 == IF obj = "original" THEN res.stack ELSE current_stack
        s2 == IF obj = "clone" THEN res.stack ELSE clone_stack
    IN  /\ current_stack' = s1
        /\ clone_stack' = s2
        /\ ctx_data' = Collected(res.data, s1, s2)
        /\ last_op' = [NoOp EXCEPT !.op = OpName(obj, op), !.key = key, !.arg = arg,
                                   !.exc = res.exc]
        /\ UNCHANGED <<blocks, pipeline_vars, thread_vars, config_vars, cast_call, derive_vars,
                     more_vars>>

ObjSet(obj, key) ==
    /\ ObjStack(obj) = <<>> => CanCreate(ObjStack(obj), blocks)
    /\ OnObject(obj, "set", key, ObjValue(obj),
                SetResult(ObjStack(obj), ctx_data, blocks, key, ObjValue(obj)))

ObjRemove(obj, key) ==
    OnObject(obj, "remove", key, 0, RemoveResult(ObjStack(obj), ctx_data, key))

\* obj.push(ThreadLocalExecutionContext()), on a stack of fewer than MaxDepth
\* scopes.
ObjPush(obj) ==
    /\ Len(ObjStack(obj)) < MaxDepth
    /\ CanCreate(ObjStack(obj), blocks)
    /\ LET c == NewContext(ObjStack(obj), blocks)
       IN  OnObject(obj, "push", "-", c,
                    PushResult(ObjStack(obj), [ctx_data EXCEPT ![c] = EmptyScope], c))

ObjPop(obj) ==
    OnObject(obj, "pop", "-", NOTSET, PopResult(ObjStack(obj), ctx_data, NOTSET))

ObjClear(obj) ==
    OnObject(obj, "clear", "-", 0, ClearResult(ObjStack(obj), ctx_data))

\* set called directly on the scope at position i of obj's stack.
ObjScopeSet(obj, i, key) ==
    OnObject(obj, "scope_set", key, ObjValue(obj),
             Result(ObjStack(obj), ScopeSet(ctx_data, ObjStack(obj)[i], key, ObjValue(obj)),
                    "none", None, <<>>))

\* restored = ExecutionContextStack.__new__(...); restored.__setstate__(
\* stack.__getstate__()): the second object is the restored one.
Restore ==
    LET made == StackSetState(StackGetState(current_stack, ctx_data))
    IN  OnObject("clone", "restore", "-", 0, Result(made.stack, made.data, "none", None, <<>>))

\* The same for the scope at position i: a fresh ThreadLocalExecutionContext is
\* given the state of that scope; what it then holds is recorded with the
\* operation.
ScopeRestore(i) ==
    /\ last_op' = [NoOp EXCEPT !.op = "scope_restore", !.arg = i,
                               !.mapping = ScopeSetState(ScopeGetState(
                                               ctx_data[current_stack[i]]))]
    /\ UNCHANGED <<current_stack, ctx_data, blocks, pipeline_vars, ext_vars>>

\* ExecutionContextStack.clone(): copy.deepcopy(self); the second object is the
\* clone.
Clone ==
    LET made == DeepCopyStack(current_stack, ctx_data)
    IN  OnObject("clone", "clone", "-", 0, Result(made.stack, made.data, "none", None, <<>>))

\* The key the callers of SpecCopy write and remove.
CopyKeys == {"a"}

\* A stack is filled, copied (clone) or restored from its state, and both the
\* original and the copy are operated on afterwards.
NextCopy ==
    \/ \E obj \in StackObjects, k \in CopyKeys : ObjSet(obj, k)
    \/ \E obj \in StackObjects, k \in CopyKeys : ObjRemove(obj, k)
    \/ \E obj \in StackObjects : ObjPush(obj)
    \/ \E obj \in StackObjects : ObjPop(obj)
    \/ \E obj \in StackObjects : ObjClear(obj)
    \/ \E obj \in StackObjects, k \in CopyKeys :
          \E i \in 1..Len(ObjStack(obj)) : ObjScopeSet(obj, i, k)
    \/ Clone
    \/ Restore
    \/ \E i \in 1..Len(current_stack) : ScopeRestore(i)

(***************************************************************************)
(* Two threads on the same stack object and the same scope objects         *)
(***************************************************************************)
Threads == {"A", "B"}

Other(t) == IF t = "A" THEN "B" ELSE "A"

\* self._thread_local is a threading.local(): an attribute read or written in
\* thread t is the one of thread t's own storage.
LocalOf_one_for_all(t) == "A"
LocalOf(t) == t

\* self._thread_local.execution_context_stack as thread t finds it, and the
\* attributes of every scope's _thread_local as thread t finds them.
ThreadStack(t) == IF LocalOf(t) = "A" THEN current_stack ELSE peer_stack

ThreadData(t) == IF LocalOf(t) = "A" THEN ctx_data ELSE peer_data

\* Thread A writes 1, thread B writes 2.
ThreadValue(t) == IF t = "A" THEN 1 ELSE 2

\* An operation run by thread t ended as res says. created is the scope the
\* operation made (a new object holds nothing in any thread), or NotAContext.
\* Of the call only the thread that made it is recorded.
OnThread(t, res, created) ==
    LET fresh(data) == IF created = NotAContext THEN data
                       ELSE [data EXCEPT ![created] = EmptyScope]
    IN  /\ IF LocalOf(t) = "A"
           THEN /\ current_stack' = res.stack
                /\ ctx_data' = res.data
                /\ peer_stack' = peer_stack
                /\ peer_data' = fresh(peer_data)
           ELSE /\ peer_stack' = res.stack
                /\ peer_data' = res.data
                /\ current_stack' = current_stack
                /\ ctx_data' = fresh(ctx_data)
        /\ last_op' = [NoOp EXCEPT !.op = "thread_call", !.thread = t]
        /\ UNCHANGED <<blocks, pipeline_vars, copy_vars, config_vars, cast_call, derive_vars,
                     more_vars>>

TPush(t, c) == OnThread(t, PushResult(ThreadStack(t), ThreadData(t), c), NotAContext)

TPop(t) == OnThread(t, PopResult(ThreadStack(t), ThreadData(t), NOTSET), NotAContext)

TExtend(t, contexts) ==
    OnThread(t, ExtendResult(ThreadStack(t), ThreadData(t), contexts), NotAContext)

TSet(t, key) ==
    /\ ThreadStack(t) = <<>> => CanCreate(ThreadStack(t), blocks)
    /\ OnThread(t, SetResult(ThreadStack(t), ThreadData(t), blocks, key, ThreadValue(t)),
                IF ThreadStack(t) = <<>> THEN NewContext(ThreadStack(t), blocks)
                ELSE NotAContext)

TRemove(t, key) ==
    OnThread(t, RemoveResult(ThreadStack(t), ThreadData(t), key), NotAContext)

TPopToItem(t, marker) ==
    OnThread(t, PopToItemResult(ThreadStack(t), ThreadData(t), marker, TRUE),
             NotAContext)

TClear(t) == OnThread(t, ClearResult(ThreadStack(t), ThreadData(t)), NotAContext)

\* The key the threads of SpecThreads write and remove.
ThreadKeys == {"a"}

\* Any interleaving of the two threads' operations.
NextThreads ==
    \E t \in Threads :
        \/ \E c \in CtxIds : TPush(t, c)
        \/ TPop(t)
        \/ \E cs \in SeqsUpTo(CtxIds, 2) : TExtend(t, cs)
        \/ \E k \in ThreadKeys : TSet(t, k)
        \/ \E k \in ThreadKeys : TRemove(t, k)
        \/ \E c \in CtxIds : TPopToItem(t, c)
        \/ TClear(t)

\* The stack is built up and taken down without any value being set: pushes
\* of scopes and markers, pops, and pop_to_item with either flag.
NextMarkers ==
    \/ \E c \in Contexts : Push(c)
    \/ \E cs \in SeqsUpTo(Contexts, 2) : Extend(cs)
    \/ Pop
    \/ \E c \in Contexts, r \in BOOLEAN : PopToItem(c, r)
    \/ Clear

\* The longest list handed to extend or to AsExecutionContext.
MaxExtend == 3

\* AsExecutionContext(execution_contexts=[...]) with a list of contexts and
\* other objects.
ListEnterArgs == {[kind |-> "list", ctxs |-> cs] : cs \in SeqsUpTo(PushArgs, MaxExtend)}

\* The stack is built up by single pushes; then one list is pushed onto it,
\* with extend or by entering an AsExecutionContext block, and a block that
\* was entered is left again.
Building == last_op.op \in {"init", "push"}

NextExtend ==
    \/ Building /\ \E c \in CtxIds : Push(c)
    \/ Building /\ \E cs \in SeqsUpTo(PushArgs, MaxExtend) : Extend(cs)
    \/ Building /\ \E ec \in ListEnterArgs : Enter(ec)
    \/ \E how \in {"normal", "exception"} : Exit(how)

(***************************************************************************)
(* Config: a local mapping and an ordered list of provider configs         *)
(***************************************************************************)
MaxConfigs == 3

\* The config objects; add_provider only ever hands a config one with a
\* larger number, so no config is (indirectly) its own provider.
ConfigIds == 1..MaxConfigs

\* "x" is an ordinary key; "name" is also the name of a read-only property of
\* the class.
ConfKeys == {"x", "name"}

IsProperty(key) == key = "name"

\* self._config_dict[key] raised KeyError / the object has no such attribute.
KeyAbsent == 0

\* The keys initial_config has values for.
InitialKeys == {"x"}

\* What config c can hold for a key after construction: its own number, or the
\* NOTSET object.
InitialValues(c) == {c, NOTSET}

EmptyDict == [k \in ConfKeys |-> KeyAbsent]

\* The values a caller passes as default_value, besides leaving it out.
ConfDefaults == {NOTSET, None, 5}

\* value_type_func: left out, or a converter that gives a different value for
\* every input (like float or str applied to an int).
TypeFuncs == {"none", "convert"}

ApplyTypeFunc(f, value) == value + 10

ConfResult(exc, ret, missing_key) == [exc |-> exc, ret |-> ret, missing_key |-> missing_key]

RECURSIVE GetConfValueResult(_, _, _, _, _, _)
RECURSIVE GetRawValue(_, _, _, _)
RECURSIVE FromProviders_last_wins(_, _, _, _)
RECURSIVE FromProviders(_, _, _, _)

\* The loop of _get_raw_value over the providers: the value of the last
\* provider whose provider[key] does not raise KeyError, NOTSET if there is none.
FromProviders_last_wins(dicts, provs, providers, key) ==
    IF providers = <<>> THEN NOTSET
    ELSE LET n == Len(providers)
             hit == GetConfValueResult(dicts, provs, providers[n], key, NOTSET, "none")
         IN  IF hit.exc = "none" THEN hit.ret
             ELSE FromProviders_last_wins(dicts, provs, SubSeq(providers, 1, n - 1), key)

\* The loop of _get_raw_value over the providers: the value of the first
\* provider whose provider[key] (its get_conf_value(key)) does not raise
\* KeyError, NOTSET if there is none.
FromProviders(dicts, provs, providers, key) ==
    IF providers = <<>> THEN NOTSET
    ELSE LET hit == GetConfValueResult(dicts, provs, Head(providers), key, NOTSET, "none")
         IN  IF hit.exc = "none" THEN hit.ret
             ELSE FromProviders(dicts, provs, Tail(providers), key)

\* _get_raw_value(key) of config c: the local mapping first, the providers on
\* KeyError; a result that is the NOTSET object raises ConfigKeyError.
GetRawValue(dicts, provs, c, key) ==
    LET return_val == IF dicts[c][key] # KeyAbsent THEN dicts[c][key]
                      ELSE FromProviders(dicts, provs, provs[c], key)
    IN  IF return_val = NOTSET THEN ConfResult("ConfigKeyError", None, key)
        ELSE ConfResult("none", return_val, "-")

\* The except branch of get_conf_value: the default unless it is not supplied.
OnMiss_none_is_unset(key, default_value) ==
    IF default_value # NOTSET /\ default_value # None
    THEN ConfResult("none", default_value, "-")
    ELSE ConfResult("ConfigKeyError", None, key)

\* The except branch of get_conf_value: default_value is not NOTSET.
OnMiss(key, default_value) ==
    IF default_value # NOTSET THEN ConfResult("none", default_value, "-")
    ELSE ConfResult("ConfigKeyError", None, key)

\* get_conf_value(key, default_value, value_type_func) of config c.
GetConfValueResult(dicts, provs, c, key, default_value, value_type_func) ==
    LET raw == GetRawValue(dicts, provs, c, key)
        found == IF raw.exc = "none" THEN raw ELSE OnMiss(key, default_value)
    IN  IF found.exc = "none" /\ value_type_func # "none"
        THEN [found EXCEPT !.ret = ApplyTypeFunc(value_type_func, found.ret)]
        ELSE found

RECURSIVE Contains(_, _, _, _)
RECURSIVE AnyContains(_, _, _, _)

\* The loop of __contains__ over the providers.
AnyContains(dicts, provs, providers, key) ==
    IF providers = <<>> THEN FALSE
    ELSE \/ Contains(dicts, provs, Head(providers), key)
         \/ AnyContains(dicts, provs, Tail(providers), key)

\* key in config c.
Contains(dicts, provs, c, key) ==
    \/ dicts[c][key] # KeyAbsent
    \/ AnyContains(dicts, provs, provs[c], key)

NoConfOp == [op |-> "init", cfg |-> 0, key |-> "-", arg |-> 0, explicit |-> FALSE,
             func |-> "none", exc |-> "none", ret |-> None, missing_key |-> "-"]

\* Config(name, initial_config) and ReadOnlyConfig(name, initial_config): the
\* configs exist, each with the mapping it was constructed from and no
\* provider; only the first one may be a ReadOnlyConfig.
InitConfig ==
    /\ conf_dict \in [ConfigIds -> {[EmptyDict EXCEPT !["x"] = v] :
                                        v \in {KeyAbsent, NOTSET} \cup ConfigIds}]
    /\ \A c \in ConfigIds : conf_dict[c]["x"] \in {KeyAbsent} \cup InitialValues(c)
    /\ conf_providers = [c \in ConfigIds |-> <<>>]
    /\ conf_attrs = [c \in ConfigIds |-> EmptyDict]
    /\ conf_readonly \in [ConfigIds -> BOOLEAN]
    /\ \A c \in ConfigIds : conf_readonly[c] => c = 1
    /\ conf_op = NoConfOp
    /\ parent = NoParent
    /\ pipe_op = NoPipeOp
    /\ backlog = <<>>
    /\ imm_objs = <<>>
    /\ imm_op = "none"
    /\ log_now = 0
    /\ log_prov = <<>>
    /\ log_coll = "none"
    /\ log_op = "none"
    /\ decorator = "none"
    /\ frames = <<>>
    /\ cast_call = "none"
    /\ current_stack = <<>>
    /\ ctx_data = <<>>
    /\ last_op = "none"
    /\ blocks = <<>>
    /\ clone_stack = <<>>
    /\ peer_stack = <<>>
    /\ peer_data = <<>>
    /\ stage_functions = <<>>
    /\ transition_filters = <<>>
    /\ args = 1
    /\ pc = "idle"
    /\ idx = 0
    /\ fidx = 0
    /\ intermediate_result = None
    /\ should_continue = TRUE
    /\ calls = <<>>
    /\ raised = NoExc
    /\ returned = None

not_config_vars == <<pipeline_vars, stack_vars, blocks, copy_vars, thread_vars, cast_call,
                     derive_vars, more_vars>>

\* c.add_provider(p): the provider is appended to the list. Callers add a
\* provider to a config once.
AddProvider(c, p) ==
    /\ c < p
    /\ p \notin Range(conf_providers[c])
    /\ conf_providers' = [conf_providers EXCEPT ![c] = Append(@, p)]
    /\ conf_op' = [NoConfOp EXCEPT !.op = "add_provider", !.cfg = c, !.arg = p]
    /\ UNCHANGED <<conf_dict, conf_attrs, conf_readonly, not_config_vars>>

\* c.get_conf_value(key[, default_value][, value_type_func]).
GetConfValue(c, key, explicit, default_value, value_type_func) ==
    /\ ~explicit => default_value = NOTSET
    /\ LET res == GetConfValueResult(conf_dict, conf_providers, c, key,
                                     default_value, value_type_func)
       IN  conf_op' = [NoConfOp EXCEPT !.op = "get_conf_value", !.cfg = c, !.key = key,
                                       !.arg = default_value, !.explicit = explicit,
                                       !.func = value_type_func, !.exc = res.exc,
                                       !.ret = res.ret, !.missing_key = res.missing_key]
    /\ UNCHANGED <<conf_dict, conf_providers, conf_attrs, conf_readonly, not_config_vars>>

\* setattr(c, key, value): ImmutableMixin.__setattr__ raises once the object
\* is immutable; otherwise Config.__setattr__ sets the instance attribute, and
\* stores into _config_dict when that raises AttributeError (a property
\* without a setter).
SetAttrTo(op, c, key, value) ==
    /\ IF conf_readonly[c]
       THEN /\ conf_op' = [NoConfOp EXCEPT !.op = op, !.cfg = c, !.key = key, !.arg = value,
                                           !.exc = "ImmutableObjectException"]
            /\ UNCHANGED <<conf_dict, conf_attrs>>
       ELSE /\ conf_op' = [NoConfOp EXCEPT !.op = op, !.cfg = c, !.key = key, !.arg = value]
            /\ IF IsProperty(key)
               THEN /\ conf_dict' = [conf_dict EXCEPT ![c][key] = value]
                    /\ UNCHANGED conf_attrs
               ELSE /\ conf_attrs' = [conf_attrs EXCEPT ![c][key] = value]
                    /\ UNCHANGED conf_dict
    /\ UNCHANGED <<conf_providers, conf_readonly, not_config_vars>>

\* c.key = value
SetAttr(c, key, value) == SetAttrTo("setattr", c, key, value)

\* c[key] = value: __setitem__ is setattr(self, key, value).
SetItem(c, key, value) == SetAttrTo("setitem", c, key, value)

\* del c.key: ImmutableMixin.__delattr__ raises once the object is immutable;
\* otherwise the instance attribute is deleted, AttributeError if there is none.
DelAttr(c, key) ==
    /\ IF conf_readonly[c]
       THEN /\ conf_op' = [NoConfOp EXCEPT !.op = "delattr", !.cfg = c, !.key = key,
                                           !.exc = "ImmutableObjectException"]
            /\ UNCHANGED conf_attrs
       ELSE IF conf_attrs[c][key] # KeyAbsent
       THEN /\ conf_op' = [NoConfOp EXCEPT !.op = "delattr", !.cfg = c, !.key = key]
            /\ conf_attrs' = [conf_attrs EXCEPT ![c][key] = KeyAbsent]
       ELSE /\ conf_op' = [NoConfOp EXCEPT !.op = "delattr", !.cfg = c, !.key = key,
                                           !.exc = "AttributeError"]
            /\ UNCHANGED conf_attrs
    /\ UNCHANGED <<conf_dict, conf_providers, conf_readonly, not_config_vars>>

\* The value callers assign.
Assigned == 7

\* The caller holds the first config and reads from it; the others are
\* handed to add_provider.
NextConfig ==
    \/ \E c, p \in ConfigIds : AddProvider(c, p)
    \/ \E k \in InitialKeys, e \in BOOLEAN, d \in ConfDefaults, f \in TypeFuncs :
          GetConfValue(1, k, e, d, f)

\* The public operations that could change what the first config resolves,
\* each followed by reads of it.
NextReadOnly ==
    \/ \E c, p \in ConfigIds : AddProvider(c, p)
    \/ \E k \in ConfKeys : GetConfValue(1, k, FALSE, NOTSET, "none")
    \/ \E k \in ConfKeys : SetAttr(1, k, Assigned)
    \/ \E k \in ConfKeys : SetItem(1, k, Assigned)
    \/ \E k \in ConfKeys : DelAttr(1, k)

(***************************************************************************)
(* get_config_value: an environment value or a default, cast to the first  *)
(* candidate type that accepts it                                          *)
(***************************************************************************)
MaxCandidates == 2

\* The types a caller names in val_type.
CastTypes == {"dict", "list", "tuple", "int", "bool"}

\* The strings the environment can hold for the property: a number, a list
\* display, a dict display, a word (a name, to ast.literal_eval) and two words
\* (not an expression at all).
EnvTexts == {"12", "[10, 20]", "{'a': 1}", "abc", "hello world"}

\* property_name is not in os.environ.
Unset == "unset"

\* A Python value: its type, the text it was made from and the conversion
\* that made it.
PyValue(type, text, via) == [type |-> type, text |-> text, via |-> via]

EnvValue(text) == PyValue("str", text, "environ")

\* The values callers pass as default: None (the parameter's default), the
\* number 7, the string "localhost" and the dict {"k": 0}.
CastDefaults ==
    {PyValue("NoneType", "None", "given"), PyValue("int", "7", "given"),
     PyValue("str", "localhost", "given"), PyValue("dict", "{'k': 0}", "given")}

\* What val_type can be: left out (None), one type, or a list of types.
ValTypeArgs ==
    {[form |-> "none", types |-> <<>>]}
    \cup {[form |-> "single", types |-> <<t>>] : t \in CastTypes}
    \cup {[form |-> "list", types |-> ts] : ts \in SeqsUpTo(CastTypes, MaxCandidates) \ {<<>>}}

\* isinstance(val, cast_option); bool is a subclass of int, and None in place
\* of a type makes isinstance raise TypeError (handled by CastStep).
IsInstance(val, cast_option) ==
    \/ val.type = cast_option
    \/ cast_option = "int" /\ val.type = "bool"

\* bool(val) of the values of the model: None is false, every other one (a
\* string that is not empty, a number that is not 0, a container with
\* elements) is true.
Truthy(val) == val.type # "NoneType"

Cast(val, exc) == [val |-> val, exc |-> exc]

\* ast.literal_eval(val): the value the text denotes; ValueError for a name
\* and for an argument that is not a string; SyntaxError for a text that is
\* not an expression.
LiteralEval(val) ==
    IF val.type # "str" THEN Cast(val, "ValueError")
    ELSE CASE val.text = "12" -> Cast(PyValue("int", val.text, "literal_eval"), "none")
           [] val.text = "[10, 20]" -> Cast(PyValue("list", val.text, "literal_eval"), "none")
           [] val.text = "{'a': 1}" -> Cast(PyValue("dict", val.text, "literal_eval"), "none")
           [] val.text \in {"abc", "localhost"} -> Cast(val, "ValueError")
           [] OTHER -> Cast(val, "SyntaxError")

\* The tuple / list branch: a string is stripped and split at the commas,
\* another true value is kept as it is, a false one becomes []; for tuple the
\* result goes through tuple(), which raises TypeError for a number.
SplitOrKeep(val, cast_option) ==
    LET listed == IF val.type = "str" THEN PyValue("list", val.text, "split")
                  ELSE IF Truthy(val) THEN val
                  ELSE PyValue("list", "", "empty")
    IN  IF cast_option = "list" THEN Cast(listed, "none")
        ELSE IF listed.type \in {"list", "tuple", "dict"}
        THEN Cast(PyValue("tuple", listed.text, listed.via), "none")
        ELSE Cast(listed, "TypeError")

\* cast_option(val) for int: a string of digits converts, another string
\* raises ValueError, None and the containers raise TypeError.
CallInt(val) ==
    IF val.type = "str"
    THEN IF val.text = "12" THEN Cast(PyValue("int", val.text, "int"), "none")
         ELSE Cast(val, "ValueError")
    ELSE Cast(val, "TypeError")

\* The body of the try for one cast_option: val afterwards, and the exception
\* that ended it. Every branch assigns to val itself.
CastStep(val, cast_option) ==
    IF cast_option = "None" THEN Cast(val, "TypeError")
    ELSE IF IsInstance(val, cast_option) THEN Cast(val, "none")
    ELSE CASE cast_option = "dict" -> LiteralEval(val)
           [] cast_option \in {"tuple", "list"} -> SplitOrKeep(val, cast_option)
           [] cast_option = "bool" ->
                 IF val.type = "str" THEN Cast(PyValue("bool", val.text, "parse_bool"), "none")
                 ELSE Cast(PyValue("bool", val.text, "bool"), "none")
           [] cast_option = "str" -> Cast(PyValue("str", val.text, "str"), "none")
           [] OTHER -> CallInt(val)

RECURSIVE CastLoop_first_only(_, _)
RECURSIVE CastLoop(_, _)

\* for cast_option in val_type, giving up after the first candidate.
CastLoop_first_only(val, val_type) ==
    IF val_type = <<>> THEN Cast(val, "none")
    ELSE LET step == CastStep(val, Head(val_type))
         IN  IF step.exc = "SyntaxError" THEN step
             ELSE Cast(step.val, "none")

\* for cast_option in val_type: break once val is an instance of the
\* candidate; TypeError and ValueError are swallowed and the loop goes on with
\* val as the try body left it; any other exception leaves the function.
CastLoop(val, val_type) ==
    IF val_type = <<>> THEN Cast(val, "none")
    ELSE LET step == CastStep(val, Head(val_type))
         IN  IF step.exc = "SyntaxError" THEN step
             ELSE IF step.exc = "none" /\ IsInstance(step.val, Head(val_type))
             THEN Cast(step.val, "none")
             ELSE CastLoop(step.val, Tail(val_type))

\* val before any cast: the environment's string, else the default.
Looked(env, default) == IF env # Unset THEN EnvValue(env) ELSE default

\* The candidates the loop runs over, the type of the default not being used.
Candidates_no_inference(default, val_type) ==
    IF val_type.form = "none" THEN <<"None">> ELSE val_type.types

\* The candidates the loop runs over: type(default) when val_type is left out
\* and the default is not None, [val_type] when val_type is not iterable
\* (None included).
Candidates(default, val_type) ==
    IF val_type.form = "none"
    THEN IF default.type # "NoneType" THEN <<default.type>> ELSE <<"None">>
    ELSE val_type.types

\* A call that has read the environment and not yet cast anything.
Pending(env, default, val_type) ==
    [op |-> "pending", env |-> env, default |-> default, val_type |-> val_type,
     exc |-> "none", ret |-> Looked(env, default)]

\* get_config_value(property_name, default, val_type=val_type) has been
\* called with the environment holding env for the property.
InitCast ==
    /\ cast_call \in {Pending(env, default, val_type) :
                          env \in EnvTexts \cup {Unset}, default \in CastDefaults,
                          val_type \in ValTypeArgs}
    /\ conf_dict = <<>>
    /\ conf_providers = <<>>
    /\ conf_attrs = <<>>
    /\ conf_readonly = <<>>
    /\ conf_op = "none"
    /\ parent = NoParent
    /\ pipe_op = NoPipeOp
    /\ backlog = <<>>
    /\ imm_objs = <<>>
    /\ imm_op = "none"
    /\ log_now = 0
    /\ log_prov = <<>>
    /\ log_coll = "none"
    /\ log_op = "none"
    /\ decorator = "none"
    /\ frames = <<>>
    /\ current_stack = <<>>
    /\ ctx_data = <<>>
    /\ last_op = "none"
    /\ blocks = <<>>
    /\ clone_stack = <<>>
    /\ peer_stack = <<>>
    /\ peer_data = <<>>
    /\ stage_functions = <<>>
    /\ transition_filters = <<>>
    /\ args = 1
    /\ pc = "idle"
    /\ idx = 0
    /\ fidx = 0
    /\ intermediate_result = None
    /\ should_continue = TRUE
    /\ calls = <<>>
    /\ raised = NoExc
    /\ returned = None

\* The rest of get_config_value: the candidates are worked out and the loop
\* runs over them; the call returns val or is left by an exception.
GetConfigValue ==
    /\ cast_call.op = "pending"
    /\ LET res == CastLoop(cast_call.ret, Candidates(cast_call.default, cast_call.val_type))
       IN  cast_call' = [cast_call EXCEPT !.op = "get_config_value", !.exc = res.exc,
                                          !.ret = res.val]
    /\ UNCHANGED <<pipeline_vars, stack_vars, blocks, copy_vars, thread_vars, config_vars,
                   derive_vars, more_vars>>

NextCast == GetConfigValue

(***************************************************************************)
(* base_utils.py: ImmutableMixin and ImmutableDelay                        *)
(***************************************************************************)
MaxImmObjs == 2
MaxDelays == 2

ImmObjIds == 1..MaxImmObjs

\* The attributes callers touch: the one the test class declares, and the
\* name the mixin keeps its flag under.
AttrNames == {"some_prop", "__immutable__"}

Absent == "<absent>"

\* An object no constructor has run on: an empty __dict__. block records
\* where ImmutableMixin.__init__ ran: outside every ImmutableDelay block
\* ("none"), or inside one that is still open ("open") or has exited since
\* ("exited"); depth is that block's nesting depth.
NoObject == [built |-> FALSE, dict |-> [a \in AttrNames |-> Absent],
             block |-> "none", depth |-> 0]

NoImmOp == [op |-> "init", obj |-> 0, name |-> "-", value |-> Absent, exc |-> "none"]

\* _is_immutability_delayed(): _get_current_scoped_queue() is not None
IsImmutabilityDelayed_never(bl) == FALSE
IsImmutabilityDelayed(bl) == bl # <<>>

\* ImmutableMixin.is_immutable(): self.__dict__.get("__immutable__", False)
IsImmutable(obj) == obj.dict["__immutable__"] = "True"

\* ImmutableMixin.make_immutable()
MakeImmutable(obj) == [obj EXCEPT !.dict["__immutable__"] = "True"]

\* ImmutableMixin.__init__: the object joins the innermost block's queue, or
\* is made immutable at once.
MixinInit(bl, objs, o) ==
    IF IsImmutabilityDelayed(bl)
    THEN [backlog |-> [bl EXCEPT ![Len(bl)] = Append(@, o)], objs |-> objs]
    ELSE [backlog |-> bl, objs |-> [objs EXCEPT ![o] = MakeImmutable(@)]]

\* No block is open and no object exists yet.
InitImmutable ==
    /\ backlog = <<>>
    /\ imm_objs = [o \in ImmObjIds |-> NoObject]
    /\ imm_op = NoImmOp
    /\ log_now = 0
    /\ log_prov = <<>>
    /\ log_coll = "none"
    /\ log_op = "none"
    /\ decorator = "none"
    /\ frames = <<>>
    /\ current_stack = <<>>
    /\ ctx_data = <<>>
    /\ clone_stack = <<>>
    /\ peer_stack = <<>>
    /\ peer_data = <<>>
    /\ conf_dict = <<>>
    /\ conf_providers = <<>>
    /\ conf_attrs = <<>>
    /\ conf_readonly = <<>>
    /\ conf_op = "none"
    /\ parent = NoParent
    /\ pipe_op = NoPipeOp
    /\ cast_call = "none"
    /\ last_op = NoOp
    /\ blocks = <<>>
    /\ stage_functions = <<>>
    /\ transition_filters = <<>>
    /\ args = 1
    /\ pc = "idle"
    /\ idx = 0
    /\ fidx = 0
    /\ intermediate_result = None
    /\ should_continue = TRUE
    /\ calls = <<>>
    /\ raised = NoExc
    /\ returned = None

not_immutable_vars == <<pipeline_vars, stack_vars, blocks, copy_vars, thread_vars,
                        config_vars, cast_call, derive_vars, log_vars, decorator_vars>>

\* with ImmutableDelay(): __enter__ -> _create_scoped_queue()
EnterDelay ==
    /\ Len(backlog) < MaxDelays
    /\ backlog' = Append(backlog, <<>>)
    /\ imm_op' = [NoImmOp EXCEPT !.op = "enter_delay"]
    /\ UNCHANGED <<imm_objs, not_immutable_vars>>

\* The innermost block ends: __exit__ pops its queue and makes every object
\* in it immutable.
ExitDelay ==
    /\ backlog # <<>>
    /\ LET queue == Top(backlog)
       IN  imm_objs' = [o \in ImmObjIds |->
               LET obj == IF o \in Range(queue) THEN MakeImmutable(imm_objs[o])
                          ELSE imm_objs[o]
               IN  IF obj.block = "open" /\ obj.depth = Len(backlog)
                   THEN [obj EXCEPT !.block = "exited"]
                   ELSE obj]
    /\ backlog' = ButLast(backlog)
    /\ imm_op' = [NoImmOp EXCEPT !.op = "exit_delay"]
    /\ UNCHANGED not_immutable_vars

\* MyImmutableClass(): __init__ assigns some_prop, then calls
\* ImmutableMixin.__init__.
ConstructObject(o) ==
    /\ ~imm_objs[o].built
    /\ LET assigned == [imm_objs EXCEPT ![o].dict["some_prop"] = "Default Value",
                                        ![o].built = TRUE,
                                        ![o].block = IF backlog = <<>> THEN "none" ELSE "open",
                                        ![o].depth = Len(backlog)]
           res == MixinInit(backlog, assigned, o)
       IN  /\ backlog' = res.backlog
           /\ imm_objs' = res.objs
    /\ imm_op' = [NoImmOp EXCEPT !.op = "construct", !.obj = o]
    /\ UNCHANGED not_immutable_vars

\* obj.name = value: ImmutableMixin.__setattr__
ImmSetAttr(o, name, value) ==
    /\ imm_objs[o].built
    /\ IF IsImmutable(imm_objs[o])
       THEN /\ imm_op' = [op |-> "setattr", obj |-> o, name |-> name, value |-> value,
                          exc |-> "ImmutableObjectException"]
            /\ UNCHANGED imm_objs
       ELSE /\ imm_op' = [op |-> "setattr", obj |-> o, name |-> name, value |-> value,
                          exc |-> "none"]
            /\ imm_objs' = [imm_objs EXCEPT ![o].dict[name] = value]
    /\ UNCHANGED <<backlog, not_immutable_vars>>

\* del obj.name: ImmutableMixin.__delattr__; object.__delattr__ refuses a name
\* the instance does not hold.
ImmDelAttr(o, name) ==
    /\ imm_objs[o].built
    /\ IF IsImmutable(imm_objs[o])
       THEN /\ imm_op' = [op |-> "delattr", obj |-> o, name |-> name, value |-> Absent,
                          exc |-> "ImmutableObjectException"]
            /\ UNCHANGED imm_objs
       ELSE IF imm_objs[o].dict[name] = Absent
            THEN /\ imm_op' = [op |-> "delattr", obj |-> o, name |-> name, value |-> Absent,
                               exc |-> "AttributeError"]
                 /\ UNCHANGED imm_objs
            ELSE /\ imm_op' = [op |-> "delattr", obj |-> o, name |-> name, value |-> Absent,
                               exc |-> "none"]
                 /\ imm_objs' = [imm_objs EXCEPT ![o].dict[name] = Absent]
    /\ UNCHANGED <<backlog, not_immutable_vars>>

\* What callers assign: a new value to some_prop, or False to the flag's name
\* (an attempt to unlock the object).
AttrAssignments == {<<"some_prop", "new">>, <<"__immutable__", "False">>}

NextImmutable ==
    \/ EnterDelay
    \/ ExitDelay
    \/ \E o \in ImmObjIds : ConstructObject(o)
    \/ \E o \in ImmObjIds, nv \in AttrAssignments : ImmSetAttr(o, nv[1], nv[2])
    \/ \E o \in ImmObjIds, name \in AttrNames : ImmDelAttr(o, name)

(***************************************************************************)
(* loggingtools/loggingconfig.py: LevelOverride, InMemoryLogLevelProvider  *)
(* and LogLevelProviderCollection                                          *)
(***************************************************************************)
MaxTime == 2

\* provider1 and provider2 of the tests.
LogProviderIds == {1, 2}

LoggerNames == {"app"}

\* logging.DEBUG and logging.INFO
OverrideLevels == {10, 20}

\* logging.NOTSET
LoggingNotSet == 0

\* logging.getLogger(logger_name).level of a logger no one overrode
\* (logging.WARNING).
LoggerLevel == 30

\* expiration_date of a LevelOverride: None, or the moment after which it
\* has expired.
Expirations == {None, 1}

LevelOverride(level, expiration_date) ==
    [level |-> level, expiration_date |-> expiration_date]

\* What a dict that lacks the logger name holds for it.
NoOverride == LevelOverride(LoggingNotSet, None)

NoOverrides == [n \in LoggerNames |-> NoOverride]

\* LevelOverride.is_expired()
IsExpired(override, now) ==
    override.expiration_date # None /\ now > override.expiration_date

\* LevelOverride.level
Level(override, now) ==
    IF IsExpired(override, now) THEN LoggingNotSet ELSE override.level

\* LevelOverride._cmpkey: what ComparableMixin compares.
CmpKey(override, now) ==
    IF Level(override, now) = LoggingNotSet THEN -100 ELSE -1 * Level(override, now)

\* LogLevelProvider._is_valid_override
IsValidOverride(override, now) ==
    override # NoOverride /\ ~IsExpired(override, now)

\* LogLevelProvider._get_override: the override, or NoOverride for None.
GetOverride(overrides, logger_name, now) ==
    IF IsValidOverride(overrides[logger_name], now) THEN overrides[logger_name]
    ELSE NoOverride

\* LogLevelProvider.get_overrides on an InMemoryLogLevelProvider, whose
\* _get_updated_config returns self._overrides: the provider afterwards.
ProviderGetOverrides(prov, now) ==
    IF prov.is_dirty THEN [prov EXCEPT !.is_dirty = FALSE, !.last_update = now]
    ELSE prov

\* LogLevelProviderCollection._is_provider_update_avail
IsProviderUpdateAvail(coll, provs, p) ==
    \/ provs[p].is_dirty
    \/ coll.providers[p] = None
    \/ coll.providers[p] < provs[p].last_update

\* LogLevelProviderCollection._is_update_available
IsUpdateAvailable(coll, provs) ==
    coll.is_dirty \/ \E p \in LogProviderIds : IsProviderUpdateAvail(coll, provs, p)

\* The loop of LogLevelProviderCollection._get_updated_config over the
\* providers in the order the dict yields them.
RECURSIVE MergeOverrides(_, _, _, _)
MergeOverrides(order, provs, overrides, now) ==
    IF order = <<>> THEN overrides
    ELSE LET prov_overrides == provs[Head(order)].overrides
             merged == [n \in LoggerNames |->
                 IF /\ prov_overrides[n] # NoOverride
                    /\ \/ overrides[n] = NoOverride
                       \/ CmpKey(prov_overrides[n], now) > CmpKey(overrides[n], now)
                 THEN prov_overrides[n]
                 ELSE overrides[n]]
         IN  MergeOverrides(Tail(order), provs, merged, now)

\* The orders a dict keyed by the provider objects can yield them in.
ProviderOrders ==
    {order \in [1..Cardinality(LogProviderIds) -> LogProviderIds] :
        Range(order) = LogProviderIds}

\* LogLevelProviderCollection.get_overrides(): the collection and the
\* providers afterwards.
CollGetOverrides(coll, provs, now, order) ==
    IF IsUpdateAvailable(coll, provs)
    THEN LET asked == [p \in LogProviderIds |-> ProviderGetOverrides(provs[p], now)]
         IN  [coll |-> [coll EXCEPT !.is_dirty = FALSE,
                                    !.overrides = MergeOverrides(order, asked, NoOverrides, now),
                                    !.providers = [p \in LogProviderIds |-> now]],
              provs |-> asked]
    ELSE [coll |-> coll, provs |-> provs]

\* is_overridden(logger_name) and get_log_level(logger_name) on the overrides
\* a provider's get_overrides() returned.
QueryResult(op, who, overrides, logger_name, now) ==
    LET override == GetOverride(overrides, logger_name, now)
    IN  [op |-> op, who |-> who, name |-> logger_name,
         is_overridden |-> override # NoOverride,
         level |-> IF override # NoOverride THEN Level(override, now) ELSE LoggerLevel]

NoCollection == [created |-> FALSE, overrides |-> NoOverrides, is_dirty |-> FALSE,
                 providers |-> [p \in LogProviderIds |-> None]]

NoLogOp == [op |-> "init", who |-> 0, name |-> "-", is_overridden |-> FALSE,
            level |-> LoggingNotSet]

\* provider1 = InMemoryLogLevelProvider(); provider2 = InMemoryLogLevelProvider();
\* no collection yet.
InitLog ==
    /\ log_now = 0
    /\ log_prov = [p \in LogProviderIds |->
                      [overrides |-> NoOverrides, is_dirty |-> FALSE, last_update |-> 0]]
    /\ log_coll = NoCollection
    /\ log_op = NoLogOp
    /\ backlog = <<>>
    /\ imm_objs = <<>>
    /\ imm_op = "none"
    /\ decorator = "none"
    /\ frames = <<>>
    /\ current_stack = <<>>
    /\ ctx_data = <<>>
    /\ clone_stack = <<>>
    /\ peer_stack = <<>>
    /\ peer_data = <<>>
    /\ conf_dict = <<>>
    /\ conf_providers = <<>>
    /\ conf_attrs = <<>>
    /\ conf_readonly = <<>>
    /\ conf_op = "none"
    /\ parent = NoParent
    /\ pipe_op = NoPipeOp
    /\ cast_call = "none"
    /\ last_op = NoOp
    /\ blocks = <<>>
    /\ stage_functions = <<>>
    /\ transition_filters = <<>>
    /\ args = 1
    /\ pc = "idle"
    /\ idx = 0
    /\ fidx = 0
    /\ intermediate_result = None
    /\ should_continue = TRUE
    /\ calls = <<>>
    /\ raised = NoExc
    /\ returned = None

not_log_vars == <<pipeline_vars, stack_vars, blocks, copy_vars, thread_vars,
                  config_vars, cast_call, derive_vars, immutable_vars, decorator_vars>>

\* Time passes: utcnow() returns a later moment from now on.
Tick ==
    /\ log_now < MaxTime
    /\ log_now' = log_now + 1
    /\ log_op' = [NoLogOp EXCEPT !.op = "tick"]
    /\ UNCHANGED <<log_prov, log_coll, not_log_vars>>

\* provider.apply_overrides({logger_name: LevelOverride(level, expiration_date)})
\* with an override that has not expired yet.
ApplyOverrides(p, logger_name, level, expiration_date) ==
    /\ ~IsExpired(LevelOverride(level, expiration_date), log_now)
    /\ LET prov == ProviderGetOverrides(log_prov[p], log_now)
           level_override == LevelOverride(level, expiration_date)
           current_override == GetOverride(prov.overrides, logger_name, log_now)
       IN  IF /\ IsValidOverride(current_override, log_now)
              /\ Level(level_override, log_now) = Level(current_override, log_now)
           THEN log_prov' = [log_prov EXCEPT ![p] = prov]
           ELSE log_prov' = [log_prov EXCEPT ![p] =
                    [prov EXCEPT !.overrides[logger_name] = level_override,
                                 !.is_dirty = TRUE]]
    /\ log_op' = [NoLogOp EXCEPT !.op = "apply_overrides"]
    /\ UNCHANGED <<log_now, log_coll, not_log_vars>>

\* provider.remove_overrides(logger_name)
RemoveOverrides(p, logger_name) ==
    /\ LET prov == ProviderGetOverrides(log_prov[p], log_now)
       IN  IF prov.overrides[logger_name] = NoOverride
           THEN log_prov' = [log_prov EXCEPT ![p] = prov]
           ELSE log_prov' = [log_prov EXCEPT ![p] =
                    [prov EXCEPT !.overrides[logger_name] = NoOverride,
                                 !.is_dirty = TRUE]]
    /\ log_op' = [NoLogOp EXCEPT !.op = "remove_overrides"]
    /\ UNCHANGED <<log_now, log_coll, not_log_vars>>

\* provider.is_overridden(logger_name) / provider.get_log_level(logger_name)
QueryProvider(p, logger_name) ==
    /\ LET prov == ProviderGetOverrides(log_prov[p], log_now)
       IN  /\ log_prov' = [log_prov EXCEPT ![p] = prov]
           /\ log_op' = QueryResult("provider_query", p, prov.overrides, logger_name, log_now)
    /\ UNCHANGED <<log_now, log_coll, not_log_vars>>

\* prov_coll = LogLevelProviderCollection(provider1, provider2)
CreateCollection ==
    /\ ~log_coll.created
    /\ log_coll' = [NoCollection EXCEPT !.created = TRUE, !.is_dirty = TRUE]
    /\ log_op' = [NoLogOp EXCEPT !.op = "create_collection"]
    /\ UNCHANGED <<log_now, log_prov, not_log_vars>>

\* prov_coll.is_overridden(logger_name) / prov_coll.get_log_level(logger_name)
QueryCollection(logger_name) ==
    /\ log_coll.created
    /\ \E order \in ProviderOrders :
           LET got == CollGetOverrides(log_coll, log_prov, log_now, order)
           IN  /\ log_coll' = got.coll
               /\ log_prov' = got.provs
               /\ log_op' = QueryResult("collection_query", 0, got.coll.overrides,
                                        logger_name, log_now)
    /\ UNCHANGED <<log_now, not_log_vars>>

NextLog ==
    \/ Tick
    \/ \E p \in LogProviderIds, n \in LoggerNames, l \in OverrideLevels, e \in Expirations :
           ApplyOverrides(p, n, l, e)
    \/ \E p \in LogProviderIds, n \in LoggerNames : RemoveOverrides(p, n)
    \/ \E p \in LogProviderIds, n \in LoggerNames : QueryProvider(p, n)
    \/ CreateCollection
    \/ \E n \in LoggerNames : QueryCollection(n)

(***************************************************************************)
(* AsExecutionContext used as a decorator (contextlib_ex.ContextDecorator) *)
(***************************************************************************)
MaxCalls == 2

\* What the decorator instance is constructed with: nothing, one context, or
\* a list of contexts.
DecoratorArgs ==
    {[kind |-> "none", ctxs |-> <<>>], [kind |-> "context", ctxs |-> <<1>>],
     [kind |-> "list", ctxs |-> <<1>>], [kind |-> "list", ctxs |-> <<1, 2>>]}

\* self._execution_contexts = None
NoContexts == [kind |-> "none", ctxs |-> <<>>]

\* dec = AsExecutionContext(execution_contexts); @dec def f(): ...
\* Both threads' stacks are empty and f is not running.
InitDecorator ==
    /\ decorator \in {[supplied |-> ec, execution_contexts |-> ec, entry_point |-> NotAContext] :
                         ec \in DecoratorArgs}
    /\ frames = [t \in Threads |-> <<>>]
    /\ current_stack = <<>>
    /\ ctx_data = [c \in Objects |-> EmptyScope]
    /\ clone_stack = <<>>
    /\ peer_stack = <<>>
    /\ peer_data = [c \in Objects |-> EmptyScope]
    /\ last_op = NoOp
    /\ blocks = <<>>
    /\ backlog = <<>>
    /\ imm_objs = <<>>
    /\ imm_op = "none"
    /\ log_now = 0
    /\ log_prov = <<>>
    /\ log_coll = "none"
    /\ log_op = "none"
    /\ conf_dict = <<>>
    /\ conf_providers = <<>>
    /\ conf_attrs = <<>>
    /\ conf_readonly = <<>>
    /\ conf_op = "none"
    /\ parent = NoParent
    /\ pipe_op = NoPipeOp
    /\ cast_call = "none"
    /\ stage_functions = <<>>
    /\ transition_filters = <<>>
    /\ args = 1
    /\ pc = "idle"
    /\ idx = 0
    /\ fidx = 0
    /\ intermediate_result = None
    /\ should_continue = TRUE
    /\ calls = <<>>
    /\ raised = NoExc
    /\ returned = None

\* Thread t's stack and scopes become what res says; a scope created on the
\* way holds nothing in the other thread either.
ThreadStackBecomes(t, res, created) ==
    LET fresh(data) == IF created = NotAContext THEN data
                       ELSE [data EXCEPT ![created] = EmptyScope]
    IN  IF LocalOf(t) = "A"
        THEN /\ current_stack' = res.stack
             /\ ctx_data' = res.data
             /\ peer_stack' = peer_stack
             /\ peer_data' = fresh(peer_data)
        ELSE /\ peer_stack' = res.stack
             /\ peer_data' = res.data
             /\ current_stack' = current_stack
             /\ ctx_data' = fresh(ctx_data)

not_decorator_vars == <<blocks, pipeline_vars, copy_vars, config_vars, cast_call, derive_vars,
                        immutable_vars, log_vars>>

\* Thread t calls the decorated function: decorated() enters "with self", and
\* __enter__ notes the entry point on the instance and pushes what the
\* instance's _execution_contexts says; when it raises, f does not run.
DecCall(t) ==
    /\ Len(frames[t]) < MaxCalls
    /\ decorator.execution_contexts.kind = "none" => CanCreate(ThreadStack(t), blocks)
    /\ LET stack == ThreadStack(t)
           res == EnterResult(stack, ThreadData(t), blocks, decorator.execution_contexts)
           created == IF decorator.execution_contexts.kind = "none"
                      THEN NewContext(stack, blocks) ELSE NotAContext
       IN  /\ ThreadStackBecomes(t, res, created)
           /\ decorator' = [decorator EXCEPT !.entry_point = EntryPoint(stack)]
           /\ frames' = IF res.exc = "none"
                        THEN [frames EXCEPT ![t] = Append(@, [before |-> stack])]
                        ELSE frames
           /\ last_op' = [NoOp EXCEPT !.op = "call", !.exc = res.exc, !.thread = t]
    /\ UNCHANGED not_decorator_vars

\* Thread t's innermost call of f ends, by return or by an exception, and
\* __exit__ runs: pop_to_item(self._entry_point) or clear(), then both fields
\* of the instance are set to None.
DecReturn(t, how) ==
    /\ frames[t] # <<>>
    /\ LET blk == [NoBlock EXCEPT !.entry_point = decorator.entry_point]
           res == ExitResult(ThreadStack(t), ThreadData(t), blk)
       IN  /\ ThreadStackBecomes(t, res, NotAContext)
           /\ decorator' = IF res.exc = "none"
                           THEN [decorator EXCEPT !.execution_contexts = NoContexts,
                                                  !.entry_point = NotAContext]
                           ELSE decorator
           /\ last_op' = [NoOp EXCEPT !.op = "return", !.key = how, !.exc = res.exc,
                                      !.thread = t]
    /\ frames' = [frames EXCEPT ![t] = ButLast(@)]
    /\ UNCHANGED not_decorator_vars

\* The threads push marker contexts and pop while they are not inside f, and
\* call f, also from inside f and while the other thread is inside f.
NextDecorator ==
    \E t \in Threads :
        \/ DecCall(t)
        \/ \E how \in {"normal", "exception"} : DecReturn(t, how)
        \/ \E m \in Markers : frames[t] = <<>> /\ m \notin Range(ThreadStack(t)) /\ TPush(t, m)
        \/ frames[t] = <<>> /\ ThreadStack(t) # <<>> /\ TPop(t)

(***************************************************************************)
(* Specifications                                                          *)
(***************************************************************************)
SpecPipeline == InitPipeline /\ [][NextPipeline]_vars

SpecStack == InitStack /\ [][NextStack]_vars

SpecAsCtx == InitStack /\ [][NextAsCtx]_vars

SpecMarkers == InitStack /\ [][NextMarkers]_vars

SpecExtend == InitStack /\ [][NextExtend]_vars

SpecCopy == InitStack /\ [][NextCopy]_vars

SpecThreads == InitStack /\ [][NextThreads]_vars

SpecConfig == InitConfig /\ [][NextConfig]_vars

SpecReadOnly == InitConfig /\ [][NextReadOnly]_vars

SpecCast == InitCast /\ [][NextCast]_vars

SpecDerive == InitDerive /\ [][NextDerive]_vars

SpecConstruct == InitConstruct /\ [][NextConstruct]_vars

SpecImmutable == InitImmutable /\ [][NextImmutable]_vars

SpecLog == InitLog /\ [][NextLog]_vars

SpecDecorator == InitDecorator /\ [][NextDecorator]_vars

Spec == SpecStack


(***************************************************************************)
(* Claims about Pipeline (SpecPipeline)                                    *)
(***************************************************************************)
\* sn(...s1(s0(x))): the stages composed, first stage innermost.
RECURSIVE Composition(_, _)
Composition(stages, x) ==
    IF stages = <<>> THEN x ELSE Composition(Tail(stages), Apply(Head(stages), x))

ExitCalls == {p \in 1..Len(calls) : calls[p].how # "return"}

\* C1: a pipeline without transition filters invokes s0 with the caller's
\* arguments and every later stage with exactly one positional argument, the
\* result of the stage before it, and start(x) returns sn(...s1(s0(x))).
C1_SimpleComposition ==
    transition_filters = <<>> =>
        /\ \A p \in 1..Len(calls) :
              /\ calls[p].fn = "stage"
              /\ calls[p].pos = p - 1
              /\ calls[p].stage = stage_functions[p]
              /\ calls[p].form = IF p = 1 THEN "caller_args" ELSE "one_positional"
              /\ calls[p].arg = IF p = 1 THEN args ELSE calls[p - 1].ret
        /\ (pc = "done" /\ PipelineLen > 0) =>
              /\ Len(calls) = PipelineLen
              /\ returned = Composition(stage_functions, args)

C1_Witness ==
    /\ pc = "done"
    /\ transition_filters = <<>>
    /\ PipelineLen = 3
    /\ stage_functions[2].op = "mul"
    /\ stage_functions[3] = [op |-> "add", c |-> 2]
    /\ Len(calls) = 3
    /\ returned = Composition(stage_functions, args)

\* C2: when a transition filter raises PipelineSuccessExit carrying v after
\* stage si (i < n), start() returns v, and neither a later stage nor a filter
\* registered after the raising one is invoked: the raising call stays the last
\* invocation of the run.
C2_SuccessExit ==
    \A p \in 1..Len(calls) :
        calls[p].how = "PipelineSuccessExit" =>
            /\ calls[p].fn = "filter"
            /\ calls[p].pos < PipelineLen - 1
            /\ p = Len(calls)
            /\ pc \in {"return", "done"}
            /\ raised = NoExc
            /\ intermediate_result = calls[p].ret
            /\ pc = "done" => returned = calls[p].ret

C2_Witness ==
    /\ pc = "done"
    /\ PipelineLen = 3
    /\ Len(transition_filters) = 2
    /\ Len(calls) = 5
    /\ calls[5].how = "PipelineSuccessExit"
    /\ calls[5].pos = 1
    /\ calls[5].fi = 0
    /\ returned = calls[5].ret
    /\ returned # Composition(stage_functions, args)

\* C3: when a transition filter raises PipelineErrorExit after stage si
\* (i < n), that exception, with its type and its intermediate_result payload,
\* leaves start(); start() returns nothing and nothing is invoked afterwards.
C3_ErrorExit ==
    /\ \A p \in 1..Len(calls) :
          calls[p].how = "PipelineErrorExit" =>
              /\ calls[p].fn = "filter"
              /\ calls[p].pos < PipelineLen - 1
              /\ p = Len(calls)
              /\ pc = "raised"
              /\ raised = [type |-> "PipelineErrorExit", intermediate_result |-> calls[p].ret]
              /\ returned = None
    /\ pc = "raised" => calls # <<>> /\ calls[Len(calls)].how = "PipelineErrorExit"
    /\ pc # "raised" => raised = NoExc

C3_Witness ==
    /\ pc = "raised"
    /\ PipelineLen = 3
    /\ Len(transition_filters) = 2
    /\ Len(calls) = 5
    /\ calls[5].how = "PipelineErrorExit"
    /\ calls[5].pos = 1
    /\ calls[5].fi = 0
    /\ raised.type = "PipelineErrorExit"
    /\ raised.intermediate_result = calls[4].ret + 200
    /\ returned = None

\* The invocations come in rounds of one stage followed by every filter: the
\* p-th invocation of a run is stage (p-1) \div (k+1) when (p-1) % (k+1) = 0,
\* and otherwise filter number (p-1) % (k+1) - 1 of the transition after it.
CallsInOrder ==
    LET k == Len(transition_filters)
    IN  \A p \in 1..Len(calls) :
            LET i == (p - 1) \div (k + 1)
                r == (p - 1) % (k + 1)
            IN  /\ calls[p].pos = i
                /\ i < PipelineLen
                /\ IF r = 0
                   THEN calls[p].fn = "stage"
                   ELSE /\ calls[p].fn = "filter"
                        /\ calls[p].fi = r - 1
                        /\ i < PipelineLen - 1
                        /\ calls[p].form = "pipeline_stage_value"
                        /\ calls[p].pipeline = "self"
                        /\ calls[p].stage = stage_functions[i + 1]
                        /\ calls[p].arg = calls[p - 1].ret

\* The number of calls of filter j in the transition after stage i.
FilterCalls(i, j) ==
    Cardinality({p \in 1..Len(calls) :
                    calls[p].fn = "filter" /\ calls[p].pos = i /\ calls[p].fi = j})

EveryFilterOncePerTransition ==
    \A i \in 0..(PipelineLen - 2) :
        \A j \in 0..(Len(transition_filters) - 1) : FilterCalls(i, j) = 1

\* C4 as stated: in every run of start() every registered filter is invoked
\* exactly once after each stage si with i < n, in registration order with
\* (pipeline, si, value), and never after the last stage.
C4_Original ==
    /\ CallsInOrder
    /\ pc \in {"done", "raised"} => EveryFilterOncePerTransition

\* C4 as amended: the filters are invoked only after a stage si with i < n, in
\* registration order with (pipeline, si, value) and at most once per
\* transition; a filter that raises an exit is the last invocation of the run;
\* and in a run in which no filter raises an exit every registered filter is
\* invoked exactly once after each stage si with i < n.
C4_FilterOrder ==
    /\ CallsInOrder
    /\ \A p \in ExitCalls : p = Len(calls)
    /\ \A i \in 0..(PipelineLen - 1) :
          \A j \in 0..(Len(transition_filters) - 1) :
              /\ FilterCalls(i, j) <= 1
              /\ i = PipelineLen - 1 => FilterCalls(i, j) = 0
    /\ (pc = "done" /\ ExitCalls = {}) => EveryFilterOncePerTransition

C4_Witness ==
    /\ pc = "done"
    /\ ExitCalls = {}
    /\ PipelineLen = 3
    /\ Len(transition_filters) = 2
    /\ transition_filters[1] # transition_filters[2]
    /\ Len(calls) = 7
    /\ calls[7].fn = "stage"
    /\ EveryFilterOncePerTransition

AllFiltersAddOne ==
    \A j \in 1..Len(transition_filters) : transition_filters[j].kind = "inc"

LaterStagesAddConstant ==
    \A i \in 2..PipelineLen : stage_functions[i].op = "add"

\* Every invocation after the first receives what the invocation before it
\* returned: the first filter the stage's result, a later filter the value of
\* the filter before it, the next stage the value of the last filter.
ValuesChained ==
    \A p \in 2..Len(calls) :
        calls[p - 1].how = "return" /\ calls[p].arg = calls[p - 1].ret

\* C5 as stated: the values are chained, and with k filters that each add 1 and
\* m stages the final result is increased by k*(m-1).
C5_Original ==
    /\ ValuesChained
    /\ (pc = "done" /\ PipelineLen > 0 /\ AllFiltersAddOne) =>
          returned = Composition(stage_functions, args)
                        + Len(transition_filters) * (PipelineLen - 1)

\* C5 as amended: the values are chained, and with k filters that each add 1
\* and m stages of which every one after the first adds a constant to its
\* input, the final result is increased by k*(m-1).
C5_FilterChain ==
    /\ ValuesChained
    /\ (pc = "done" /\ PipelineLen > 0 /\ AllFiltersAddOne /\ LaterStagesAddConstant) =>
          returned = Composition(stage_functions, args)
                        + Len(transition_filters) * (PipelineLen - 1)

C5_Witness ==
    /\ pc = "done"
    /\ PipelineLen = 3
    /\ Len(transition_filters) = 2
    /\ AllFiltersAddOne
    /\ LaterStagesAddConstant
    /\ calls[2].arg = calls[1].ret
    /\ calls[3].arg = calls[1].ret + 1
    /\ calls[4].arg = calls[1].ret + 2
    /\ returned = Composition(stage_functions, args) + 4


(***************************************************************************)
(* Claims about ExecutionContextStack (SpecStack)                          *)
(***************************************************************************)
\* The positions of the stack whose scope holds key.
Holders(stack, data, key) == {i \in 1..Len(stack) : data[stack[i]][key] # Missing}

Highest(S) == CHOOSE i \in S : \A j \in S : j <= i

\* The value of key in the scope nearest to the top that holds it.
TopmostValue(stack, data, key) ==
    IF Holders(stack, data, key) = {} THEN Missing
    ELSE data[stack[Highest(Holders(stack, data, key))]][key]

\* C6: get(key) returns the value of the first scope that holds key, scanning
\* from the most recently pushed scope down: the top scope's value when two
\* scopes define key, a lower scope's value when only that one defines it.
C6_GetTopFirst ==
    /\ \A k \in Keys :
          StackLookup(current_stack, ctx_data, k) = TopmostValue(current_stack, ctx_data, k)
    /\ (last_op.op = "get" /\ Holders(current_stack, ctx_data, last_op.key) # {}) =>
          /\ last_op.exc = "none"
          /\ last_op.ret = TopmostValue(current_stack, ctx_data, last_op.key)

C6_Witness ==
    /\ last_op.op = "get"
    /\ last_op.key = "a"
    /\ Len(current_stack) = 2
    /\ ctx_data[current_stack[1]]["a"] = 1
    /\ ctx_data[current_stack[2]]["a"] = 2
    /\ ctx_data[current_stack[1]]["b"] = 1
    /\ ctx_data[current_stack[2]]["b"] = Missing
    /\ last_op.ret = 2
    /\ StackLookup(current_stack, ctx_data, "b") = 1

NoDuplicates(stack) ==
    \A i, j \in 1..Len(stack) : i # j => stack[i] # stack[j]

\* C7: no context instance is ever twice on the stack, whatever operations
\* run; push of an instance already on the stack fails with GenUtilsValueError,
\* push of an object that is no BaseExecutionContext fails with
\* GenUtilsTypeError, and a failed push leaves the stack as it was.
C7_NoDuplicates ==
    /\ NoDuplicates(current_stack)
    /\ [][/\ NoDuplicates(current_stack')
          /\ last_op'.op = "push" =>
                /\ last_op'.arg \notin Objects =>
                      last_op'.exc = "GenUtilsTypeError"
                /\ last_op'.arg \in Range(current_stack) =>
                      last_op'.exc = "GenUtilsValueError"
                /\ last_op'.arg \in Objects \ Range(current_stack) =>
                      /\ last_op'.exc = "none"
                      /\ current_stack' = Append(current_stack, last_op'.arg)
                /\ last_op'.exc # "none" =>
                      /\ current_stack' = current_stack
                      /\ ctx_data' = ctx_data]_vars

C7_Witness ==
    /\ last_op.op = "push"
    /\ last_op.exc = "GenUtilsValueError"
    /\ Len(current_stack) = 2
    /\ last_op.arg = current_stack[1]

\* C9: set(key, value) writes into the top scope only. On an empty stack one
\* new scope is pushed first and the stack's length becomes 1; otherwise the
\* stack and every scope below the top stay as they were. Right afterwards
\* get(key) gives value; what the scopes below the top give for key is not
\* touched, and that is what get(key) gives once the top scope is popped.
C9_SetTopOnly ==
    [][/\ last_op'.op = "set" =>
             /\ last_op'.exc = "none"
             /\ IF current_stack = <<>>
                THEN /\ Len(current_stack') = 1
                     /\ ctx_data'[current_stack'[1]] =
                            [EmptyScope EXCEPT ![last_op'.key] = last_op'.arg]
                ELSE /\ current_stack' = current_stack
                     /\ \A i \in 1..(Len(current_stack) - 1) :
                           ctx_data'[current_stack[i]] = ctx_data[current_stack[i]]
                     /\ \A k \in Keys \ {last_op'.key} :
                           ctx_data'[Top(current_stack)][k] = ctx_data[Top(current_stack)][k]
             /\ ctx_data'[Top(current_stack')][last_op'.key] = last_op'.arg
             /\ StackLookup(current_stack', ctx_data', last_op'.key) = last_op'.arg
             /\ StackScan(current_stack', ctx_data', Len(current_stack') - 1, last_op'.key)
                   = IF current_stack = <<>> THEN Missing
                     ELSE StackScan(current_stack, ctx_data, Len(current_stack) - 1,
                                    last_op'.key)
       /\ (last_op'.op = "pop" /\ last_op'.arg = NOTSET /\ last_op'.exc = "none") =>
             \A k \in Keys :
                 StackLookup(current_stack', ctx_data', k)
                     = StackScan(current_stack, ctx_data, Len(current_stack) - 1, k)]_vars

C9_Witness ==
    /\ last_op.op = "set"
    /\ last_op.key = "a"
    /\ last_op.arg = 2
    /\ Len(current_stack) = 2
    /\ ctx_data[current_stack[2]]["a"] = 2
    /\ ctx_data[current_stack[1]]["a"] = 1
    /\ StackLookup(current_stack, ctx_data, "a") = 2

\* C10: bulk_set(mapping) writes every key of mapping into the top scope (a new
\* scope on an empty stack), so that afterwards get(k) returns mapping[k] for
\* every key k of mapping; ExecutionContextStack(initial_context=mapping) does
\* the same.
C10_BulkSet ==
    last_op.op \in {"bulk_set", "construct"} =>
        /\ last_op.exc = "none"
        /\ \A k \in Keys :
              last_op.mapping[k] # Missing =>
                  StackLookup(current_stack, ctx_data, k) = last_op.mapping[k]

\* get(key) or get(key, default) has just run and no scope of the stack held
\* key.
GetMissed ==
    /\ last_op'.op = "get"
    /\ Holders(current_stack, ctx_data, last_op'.key) = {}

GetUnchanged ==
    last_op'.op = "get" => current_stack' = current_stack /\ ctx_data' = ctx_data

\* C11 as stated: when no scope holds key, get(key, default) returns default
\* for every explicitly supplied default, None included, get(key) without a
\* default fails with ExecutionContextValueDoesNotExist, and the stack and its
\* scopes are unchanged.
C11_Original ==
    [][/\ GetUnchanged
       /\ GetMissed =>
             IF last_op'.explicit
             THEN last_op'.exc = "none" /\ last_op'.ret = last_op'.arg
             ELSE last_op'.exc = "ExecutionContextValueDoesNotExist"]_vars

\* C11 as amended: the same for every explicitly supplied default that does
\* not compare equal to NOTSET; a supplied default equal to NOTSET is treated
\* as no default and get fails with ExecutionContextValueDoesNotExist.
C11_GetDefault ==
    [][/\ GetUnchanged
       /\ GetMissed =>
             IF last_op'.explicit /\ last_op'.arg # NOTSET
             THEN last_op'.exc = "none" /\ last_op'.ret = last_op'.arg
             ELSE last_op'.exc = "ExecutionContextValueDoesNotExist"]_vars

C11_Witness ==
    /\ last_op.op = "get"
    /\ last_op.explicit
    /\ last_op.arg = None
    /\ last_op.key = "b"
    /\ Len(current_stack) = 2
    /\ ctx_data[current_stack[2]]["a"] # Missing
    /\ Holders(current_stack, ctx_data, "b") = {}
    /\ last_op.exc = "none"
    /\ last_op.ret = None

\* What get(key) gives on the scopes below the top one.
BelowTop(stack, data, key) == StackScan(stack, data, Len(stack) - 1, key)

\* C12: remove(key) deletes key from the top scope only and never touches a
\* lower scope; it fails with ExecutionContextStackEmptyError on an empty stack
\* and with GenUtilsAttributeError when the top scope does not hold key, even
\* if a lower scope does; after a successful remove get(key) gives the value
\* of the nearest lower scope that holds key, or fails when none does.
C12_RemoveTopOnly ==
    [][last_op'.op = "remove" =>
          /\ current_stack' = current_stack
          /\ \A i \in 1..(Len(current_stack) - 1) :
                ctx_data'[current_stack[i]] = ctx_data[current_stack[i]]
          /\ IF current_stack = <<>>
             THEN /\ last_op'.exc = "ExecutionContextStackEmptyError"
                  /\ ctx_data' = ctx_data
             ELSE IF ctx_data[Top(current_stack)][last_op'.key] = Missing
                  THEN /\ last_op'.exc = "GenUtilsAttributeError"
                       /\ ctx_data' = ctx_data
                  ELSE /\ last_op'.exc = "none"
                       /\ ctx_data'[Top(current_stack)] =
                              [ctx_data[Top(current_stack)] EXCEPT ![last_op'.key] = Missing]
                       /\ StackLookup(current_stack', ctx_data', last_op'.key)
                              = BelowTop(current_stack, ctx_data, last_op'.key)
                       /\ BelowTop(current_stack, ctx_data, last_op'.key) = Missing =>
                              GetResult(current_stack', ctx_data', last_op'.key, NOTSET).exc
                                  = "ExecutionContextValueDoesNotExist"]_vars

\* key was removed from the top scope and get(key) now gives the value of the
\* scope below it.
C12_Witness ==
    /\ last_op.op = "remove"
    /\ last_op.exc = "none"
    /\ last_op.key = "a"
    /\ Len(current_stack) = 2
    /\ ctx_data[current_stack[2]]["a"] = Missing
    /\ ctx_data[current_stack[2]]["b"] = 1
    /\ ctx_data[current_stack[1]]["a"] = 1
    /\ StackLookup(current_stack, ctx_data, "a") = 1

(***************************************************************************)
(* Claims about pop_to_item (SpecMarkers)                                  *)
(***************************************************************************)
Reverse(s) == [i \in 1..Len(s) |-> s[Len(s) + 1 - i]]

\* The position of marker on a stack that holds it.
PositionOf(stack, marker) == CHOOSE i \in 1..Len(stack) : stack[i] = marker

\* C13: with marker on the stack, pop_to_item(marker) removes exactly the
\* elements above marker, returns them in pop order (the reverse of the order
\* they were pushed in) and leaves marker on top, with marker and everything
\* below it as it was; with marker absent and raise_exception true it fails
\* with GenUtilsValueError and the stack stays as it was.
C13_PopToItem ==
    [][last_op'.op = "pop_to_item" =>
          /\ ctx_data' = ctx_data
          /\ IF last_op'.arg \in Range(current_stack)
             THEN LET n == PositionOf(current_stack, last_op'.arg)
                  IN  /\ last_op'.exc = "none"
                      /\ current_stack' = SubSeq(current_stack, 1, n)
                      /\ Top(current_stack') = last_op'.arg
                      /\ last_op'.popped =
                             Reverse(SubSeq(current_stack, n + 1, Len(current_stack)))
             ELSE last_op'.key = "raise" =>
                      /\ last_op'.exc = "GenUtilsValueError"
                      /\ last_op'.popped = <<>>
                      /\ current_stack' = current_stack]_vars

\* Two elements above the marker came off, the later pushed one first.
C13_Witness ==
    /\ last_op.op = "pop_to_item"
    /\ last_op.exc = "none"
    /\ Len(current_stack) = 1
    /\ Top(current_stack) = last_op.arg
    /\ Len(last_op.popped) = 2
    /\ last_op.popped[1] # last_op.popped[2]

\* C27: pop_to_item raises for a marker that is not on the stack only when
\* raise_exception is true: with raise_exception false and the marker absent,
\* also on an empty stack, the call raises nothing and returns the elements it
\* popped.
C27_QuietPopToItem ==
    [][(/\ last_op'.op = "pop_to_item"
        /\ last_op'.key = "quiet"
        /\ last_op'.arg \notin Range(current_stack)) =>
           /\ last_op'.exc = "none"
           /\ last_op'.popped = Reverse(current_stack)]_vars

(***************************************************************************)
(* Claims about extend (SpecExtend)                                        *)
(***************************************************************************)
\* The positions of contexts whose push fails on a stack that holds stack and
\* the elements before them: not a context, or already on the stack.
Refused(stack, contexts) ==
    {i \in 1..Len(contexts) :
        \/ contexts[i] \notin Objects
        \/ contexts[i] \in Range(stack)
        \/ \E j \in 1..(i - 1) : contexts[j] = contexts[i]}

ListPushed == last_op.op = "extend" \/ (last_op.op = "enter" /\ last_op.key = "list")

\* C29: extend pushes the elements in argument order; when an element is not
\* a context (GenUtilsTypeError) or is already on the stack
\* (GenUtilsValueError), the elements before it have been pushed and stay, and
\* neither it nor any element after it is pushed; an AsExecutionContext entry
\* that fails this way opens no block, so the pushed contexts stay.
C29_ExtendPartial ==
    [][ListPushed' =>
          LET contexts == last_op'.contexts
              bad == Refused(current_stack, contexts)
          IN  IF bad = {}
              THEN /\ last_op'.exc = "none"
                   /\ current_stack' = current_stack \o contexts
              ELSE LET f == Lowest(bad)
                   IN  /\ last_op'.exc = IF contexts[f] \in Objects
                                         THEN "GenUtilsValueError"
                                         ELSE "GenUtilsTypeError"
                       /\ current_stack' = current_stack \o SubSeq(contexts, 1, f - 1)
                       /\ last_op'.op = "enter" => blocks' = blocks]_vars

\* An entry with a list of three failed on its second element: the first is
\* now on top of the stack, the third is not on it, and no block is open.
C29_Witness ==
    /\ last_op.op = "enter"
    /\ last_op.exc = "GenUtilsTypeError"
    /\ Len(last_op.contexts) = 3
    /\ last_op.contexts[2] = NotAContext
    /\ current_stack # <<>>
    /\ Top(current_stack) = last_op.contexts[1]
    /\ last_op.contexts[3] \in Objects \ Range(current_stack)
    /\ blocks = <<>>

(***************************************************************************)
(* Claims about the AsExecutionContext decorator (SpecDecorator)           *)
(***************************************************************************)
\* C28: every call of the decorated function, the second of two sequential
\* calls, a recursive call and a call made while another thread is inside
\* the function included, pushes the contexts the decorator was constructed
\* with on entry (one new context when it was constructed with none), and on
\* return leaves the calling thread's stack exactly as it was before the call.
C28_DecoratorCalls ==
    [][\A t \in Threads :
          /\ (last_op'.op = "call" /\ last_op'.thread = t) =>
                /\ last_op'.exc = "none"
                /\ IF decorator.supplied.kind = "none"
                   THEN /\ Len(ThreadStack(t)') = Len(ThreadStack(t)) + 1
                        /\ ButLast(ThreadStack(t)') = ThreadStack(t)
                   ELSE ThreadStack(t)' = ThreadStack(t) \o decorator.supplied.ctxs
          /\ (last_op'.op = "return" /\ last_op'.thread = t) =>
                /\ last_op'.exc = "none"
                /\ ThreadStack(t)' = Top(frames[t]).before]_vars

(***************************************************************************)
(* Claims about serialized states and clones (SpecCopy)                    *)
(***************************************************************************)
\* Two stacks have the same number of scopes and, position by position, scopes
\* that hold the same keys with the same values.
SameContent(s1, d1, s2, d2) ==
    /\ Len(s1) = Len(s2)
    /\ \A i \in 1..Len(s1) : \A k \in Keys :
          ScopeGet(d1, s1[i], k) = ScopeGet(d2, s2[i], k)

\* get gives the same on both stacks, for every key, without a default and
\* with one.
SameGets(s1, d1, s2, d2) ==
    \A k \in Keys : \A d \in Defaults :
        GetResult(s1, d1, k, d) = GetResult(s2, d2, k, d)

\* C14: a stack restored from the serialized state of a stack S has as many
\* scopes as S, in the same order, and get gives on it and on each of its
\* scopes what it gives on S; a scope restored from the state of a scope holds
\* what that scope holds.
C14_RoundTrip ==
    /\ last_op.op = "restore" =>
          /\ SameContent(clone_stack, ctx_data, current_stack, ctx_data)
          /\ SameGets(clone_stack, ctx_data, current_stack, ctx_data)
    /\ last_op.op = "scope_restore" =>
          \A k \in Keys :
              last_op.mapping[k] = ScopeGet(ctx_data, current_stack[last_op.arg], k)

\* A stack of two scopes, of which only the lower one holds the key, has been
\* restored.
C14_Witness ==
    /\ last_op.op = "restore"
    /\ Len(current_stack) = 2
    /\ Len(clone_stack) = 2
    /\ ctx_data[current_stack[1]]["a"] = 1
    /\ ctx_data[current_stack[2]]["a"] = Missing
    /\ ctx_data[clone_stack[1]]["a"] = 1
    /\ ctx_data[clone_stack[2]]["a"] = Missing
    /\ StackLookup(clone_stack, ctx_data, "a") = 1

CloneOps ==
    {"clone_set", "clone_remove", "clone_push", "clone_pop", "clone_clear",
     "clone_scope_set"}

OriginalOps == {"set", "remove", "push", "pop", "clear", "scope_set"}

\* C15: clone() gives a stack equal in content to the original at the time of
\* the call; afterwards no set, remove, push, pop or clear on the clone, or
\* set on one of its scopes, changes the original's length, its scopes or
\* what get gives on it, and no operation on the original changes the clone.
C15_CloneIndependent ==
    [][/\ last_op'.op = "clone" =>
             /\ SameContent(clone_stack', ctx_data', current_stack, ctx_data)
             /\ SameGets(clone_stack', ctx_data', current_stack, ctx_data)
             /\ current_stack' = current_stack
             /\ SameContent(current_stack', ctx_data', current_stack, ctx_data)
       /\ last_op'.op \in CloneOps =>
             /\ current_stack' = current_stack
             /\ SameContent(current_stack', ctx_data', current_stack, ctx_data)
             /\ SameGets(current_stack', ctx_data', current_stack, ctx_data)
       /\ last_op'.op \in OriginalOps =>
             /\ clone_stack' = clone_stack
             /\ SameContent(clone_stack', ctx_data', clone_stack, ctx_data)
             /\ SameGets(clone_stack', ctx_data', clone_stack, ctx_data)]_vars

\* The clone of a stack of two scopes has been written to: get gives 2 on the
\* clone and still 1 on the original.
C15_Witness ==
    /\ last_op.op = "clone_set"
    /\ Len(current_stack) = 2
    /\ Len(clone_stack) = 2
    /\ clone_stack[2] = CopyOf(current_stack[2])
    /\ StackLookup(clone_stack, ctx_data, "a") = 2
    /\ StackLookup(current_stack, ctx_data, "a") = 1
    /\ ctx_data[current_stack[2]]["a"] = 1

(***************************************************************************)
(* Claims about threads (SpecThreads)                                      *)
(***************************************************************************)
\* What thread t observes of the stack: len, is_empty, peek and get of every
\* key.
Observed(t) ==
    [len |-> Len(ThreadStack(t)),
     is_empty |-> Len(ThreadStack(t)) = 0,
     peek |-> IF ThreadStack(t) = <<>> THEN NotAContext ELSE Top(ThreadStack(t)),
     get |-> [k \in Keys |-> StackLookup(ThreadStack(t), ThreadData(t), k)]]

\* C16: whatever the interleaving of two threads on the same stack object, no
\* push, pop, extend, set, remove, pop_to_item or clear of one thread changes
\* what the other observes through get, peek, len and is_empty; a value set on
\* one thread is never seen on the other.
C16_ThreadIsolation ==
    /\ [](\A t \in Threads : \A k \in Keys :
             Observed(t).get[k] \in {Missing, ThreadValue(t)})
    /\ [][\A t \in Threads :
              last_op'.thread = t => Observed(Other(t))' = Observed(Other(t))]_vars

\* Both threads have the same scope object on top of their stacks; A set its
\* value, B set its own, and each sees only its own.
C16_Witness ==
    /\ last_op.op = "thread_call"
    /\ last_op.thread = "B"
    /\ current_stack # <<>>
    /\ peer_stack # <<>>
    /\ Top(current_stack) = Top(peer_stack)
    /\ Len(current_stack) # Len(peer_stack)
    /\ Observed("A").get["a"] = 1
    /\ Observed("B").get["a"] = 2

(***************************************************************************)
(* Claims about Config lookups (SpecConfig)                                *)
(***************************************************************************)
RECURSIVE Holds(_, _)
\* What config c holds for key, counting a key as held wherever it is stored:
\* its own mapping's value when the key is there, otherwise what the first
\* provider in the order of registration that holds the key holds; KeyAbsent
\* when neither it nor a provider has the key.
Holds(c, key) ==
    IF conf_dict[c][key] # KeyAbsent THEN conf_dict[c][key]
    ELSE LET providers == conf_providers[c]
             having == {i \in 1..Len(providers) : Holds(providers[i], key) # KeyAbsent}
         IN  IF having = {} THEN KeyAbsent ELSE Holds(providers[Lowest(having)], key)

RECURSIVE Resolves(_, _)
\* The same, with a key counted as held only where its lookup succeeds: a
\* config whose own mapping stores the NOTSET object for the key does not
\* resolve it (whatever its providers hold), and a provider that does not
\* resolve the key is passed over.
Resolves(c, key) ==
    IF conf_dict[c][key] = NOTSET THEN KeyAbsent
    ELSE IF conf_dict[c][key] # KeyAbsent THEN conf_dict[c][key]
    ELSE LET providers == conf_providers[c]
             having == {i \in 1..Len(providers) : Resolves(providers[i], key) # KeyAbsent}
         IN  IF having = {} THEN KeyAbsent ELSE Resolves(providers[Lowest(having)], key)

PlainGet == conf_op.op = "get_conf_value" /\ conf_op.func = "none"

ConfigState == <<conf_dict, conf_providers, conf_attrs, conf_readonly>>

\* A get_conf_value call for a key that neither the config's local mapping
\* nor any of its providers has.
ConfMissed ==
    /\ conf_op'.op = "get_conf_value"
    /\ Holds(conf_op'.cfg, conf_op'.key) = KeyAbsent

ConfUnchanged == conf_op'.op = "get_conf_value" => ConfigState' = ConfigState

Outcome(dicts, provs, c, key) ==
    LET res == GetConfValueResult(dicts, provs, c, key, NOTSET, "none")
    IN  <<res.exc, res.ret>>

Assignments == {"setattr", "setitem"}

PublicOperations == Assignments \cup {"delattr", "add_provider"}

\* C19: once a ReadOnlyConfig is constructed, attribute and item assignment
\* fail with ImmutableObjectException, and no attribute or item assignment,
\* attribute deletion or add_provider applied to it changes the outcome of
\* get_conf_value(key) for any key.
C19_ReadOnly ==
    [][conf_op'.op \in PublicOperations /\ conf_readonly[conf_op'.cfg] =>
          /\ conf_op'.op \in Assignments => conf_op'.exc = "ImmutableObjectException"
          /\ \A key \in ConfKeys :
                Outcome(conf_dict', conf_providers', conf_op'.cfg, key)
                    = Outcome(conf_dict, conf_providers, conf_op'.cfg, key)]_vars

(***************************************************************************)
(* Claims about get_config_value (SpecCast)                                *)
(***************************************************************************)
\* Casting value to candidate type t works: the cast raises nothing and gives
\* an instance of t.
Succeeds(value, t) ==
    /\ CastStep(value, t).exc = "none"
    /\ IsInstance(CastStep(value, t).val, t)

\* Every candidate tried with the same value: the cast of value to the first
\* candidate type that accepts it, value itself when none does.
FirstSuccess(value, types) ==
    LET accepting == {i \in 1..Len(types) : Succeeds(value, types[i])}
    IN  IF accepting = {} THEN value
        ELSE CastStep(value, types[Lowest(accepting)]).val

CastCalled == cast_call.op = "get_config_value"

\* The positions of the dict candidates that are reached with the uncast
\* value: no candidate before them accepts it.
DictReached(raw, types) ==
    {k \in 1..Len(types) : types[k] = "dict" /\ \A i \in 1..(k - 1) : ~Succeeds(raw, types[i])}

\* C20 as stated: a candidate type whose cast fails is skipped and the next
\* one is tried with the same raw value; when every candidate fails the
\* original uncast value (the environment string, or the default) is returned.
C20_Original ==
    CastCalled =>
        LET raw == Looked(cast_call.env, cast_call.default)
            types == Candidates(cast_call.default, cast_call.val_type)
        IN  /\ cast_call.exc = "none"
            /\ cast_call.ret = FirstSuccess(raw, types)

\* C20 as amended: the same as long as no dict candidate is reached with a
\* string that ast.literal_eval can evaluate. A dict candidate that is
\* reached replaces the value by what ast.literal_eval gives, whether or not
\* that is a dict: the candidates after it are tried with the evaluated value,
\* which is also what is returned when all of them fail. A string that is not
\* an expression at all makes the dict candidate raise SyntaxError out of
\* get_config_value.
C20_CastFallback ==
    CastCalled =>
        LET raw == Looked(cast_call.env, cast_call.default)
            types == Candidates(cast_call.default, cast_call.val_type)
            reached == DictReached(raw, types)
            evaluated == LiteralEval(raw)
        IN  IF reached = {} \/ evaluated.exc = "ValueError"
            THEN /\ cast_call.exc = "none"
                 /\ cast_call.ret = FirstSuccess(raw, types)
            ELSE IF evaluated.exc = "SyntaxError"
            THEN cast_call.exc = "SyntaxError"
            ELSE /\ cast_call.exc = "none"
                 /\ cast_call.ret = FirstSuccess(evaluated.val,
                                                 SubSeq(types, Lowest(reached), Len(types)))

\* The word "abc" with val_type=[int, list]: int fails, list is tried with
\* the same string and gives the list of its comma-separated parts.
C20_Witness ==
    /\ CastCalled
    /\ cast_call.env = "abc"
    /\ cast_call.val_type.types = <<"int", "list">>
    /\ cast_call.exc = "none"
    /\ cast_call.ret = PyValue("list", "abc", "split")

\* A call of get_config_value(name, default=d) that has returned or raised,
\* val_type having been left out.
DefaultOnly == CastCalled /\ cast_call.val_type.form = "none"

\* C21 as stated: without val_type, get_config_value(name, default=d) returns
\* d unchanged when name is not in the environment, the environment string
\* cast to type(d) when it is, and the raw environment string when there is
\* no default either.
C21_Original ==
    DefaultOnly =>
        /\ cast_call.exc = "none"
        /\ IF cast_call.env = Unset THEN cast_call.ret = cast_call.default
           ELSE IF cast_call.default.type = "NoneType"
           THEN cast_call.ret = EnvValue(cast_call.env)
           ELSE /\ cast_call.ret.type = cast_call.default.type
                /\ cast_call.ret.text = cast_call.env

\* C21 as amended: the same when the cast to type(d) succeeds. When the cast
\* raises TypeError or ValueError the environment string itself is returned;
\* for a dict default the string is evaluated with ast.literal_eval, whose
\* value is returned even when it is not a dict, and a string that is not an
\* expression raises SyntaxError.
C21_DefaultType ==
    DefaultOnly =>
        LET raw == EnvValue(cast_call.env)
            cast == CastStep(raw, cast_call.default.type)
        IN  IF cast_call.env = Unset
            THEN cast_call.exc = "none" /\ cast_call.ret = cast_call.default
            ELSE IF cast_call.default.type = "NoneType"
            THEN cast_call.exc = "none" /\ cast_call.ret = raw
            ELSE IF cast.exc = "SyntaxError"
            THEN cast_call.default.type = "dict" /\ cast_call.exc = "SyntaxError"
            ELSE /\ cast_call.exc = "none"
                 /\ IF cast.exc # "none" THEN cast_call.ret = raw
                    ELSE IF cast.val.type = cast_call.default.type
                    THEN /\ cast_call.ret.type = cast_call.default.type
                         /\ cast_call.ret.text = cast_call.env
                    ELSE /\ cast_call.default.type = "dict"
                         /\ cast_call.ret = LiteralEval(raw).val

\* The environment holds "12" and the default is the number 7: the call
\* returned the number 12.
C21_Witness ==
    /\ DefaultOnly
    /\ cast_call.env = "12"
    /\ cast_call.default = PyValue("int", "7", "given")
    /\ cast_call.exc = "none"
    /\ cast_call.ret = PyValue("int", "12", "int")

(***************************************************************************)
(* Claims about with_starting_stage and _get_next_stage (SpecDerive)       *)
(***************************************************************************)
RECURSIVE ThroughFilters(_, _, _, _)
\* The filters from position j on, applied in order to the value v that stage
\* func returned: the value to go on with, or the exit that ends the run.
ThroughFilters(filters, j, func, v) ==
    IF j > Len(filters) THEN [how |-> "continue", value |-> v]
    ELSE LET out == FilterOutcome(filters[j], func, v)
         IN  CASE out.how = "return" -> ThroughFilters(filters, j + 1, func, out.value)
               [] out.how = "PipelineSuccessExit" -> [how |-> "return", value |-> out.value]
               [] OTHER -> [how |-> "raise", value |-> out.value]

RECURSIVE RunFrom(_, _, _, _)
\* Running a pipeline with the given stages and filters from its i-th stage
\* with x as that stage's input.
RunFrom(stages, filters, i, x) ==
    LET r == Apply(stages[i], x)
    IN  IF i = Len(stages) THEN [how |-> "return", value |-> r]
        ELSE LET t == ThroughFilters(filters, 1, stages[i], r)
             IN  IF t.how = "continue" THEN RunFrom(stages, filters, i + 1, t.value)
                 ELSE t

\* C22: for every stage si of P, P.with_starting_stage(si) is a new pipeline
\* whose stages are si..sn counted from the first occurrence of si and whose
\* filters are P's; its start(x) ends as running P from si with input x does;
\* P's own stages and filters are as before the call.
C22_StartingStage ==
    pipe_op.op = "with_starting_stage" /\ pipe_op.func \in Range(pipe_op.before.stages) =>
        LET P == pipe_op.before
            k == FirstOccurrence(P.stages, pipe_op.func)
            run == RunFrom(P.stages, P.filters, k, args)
        IN  /\ pipe_op.exc = "none"
            /\ parent.derived
            /\ parent.stages = P.stages
            /\ parent.filters = P.filters
            /\ stage_functions = SubSeq(P.stages, k, Len(P.stages))
            /\ transition_filters = P.filters
            /\ pc = "done" => run.how = "return" /\ returned = run.value
            /\ pc = "raised" =>
                  /\ run.how = "raise"
                  /\ raised = [type |-> "PipelineErrorExit", intermediate_result |-> run.value]

\* A pipeline of three stages with a filter, its first stage occurring again
\* as the last one, was cut at its second stage and the new pipeline ran to
\* its end.
C22_Witness ==
    /\ pipe_op.op = "with_starting_stage"
    /\ pipe_op.exc = "none"
    /\ Len(parent.stages) = 3
    /\ parent.stages[1] = parent.stages[3]
    /\ pipe_op.func = parent.stages[2]
    /\ parent.stages[1] # parent.stages[2]
    /\ parent.filters # <<>>
    /\ Len(stage_functions) = 2
    /\ pc = "done"
    /\ returned = RunFrom(parent.stages, parent.filters, 2, args).value

StageQuery == pipe_op.op \in {"with_starting_stage", "_get_next_stage"}

\* The call failed with InvalidStageException and the pipeline is as it was.
InvalidStage ==
    /\ pipe_op.exc = "InvalidStageException"
    /\ stage_functions = pipe_op.before.stages
    /\ transition_filters = pipe_op.before.filters
    /\ ~parent.derived

\* _get_next_stage(None) returned the first stage (None when there is none).
NextOfNone ==
    pipe_op.op = "_get_next_stage" /\ pipe_op.func = NoFunc =>
        /\ pipe_op.exc = "none"
        /\ pipe_op.ret = IF pipe_op.before.stages = <<>> THEN NoFunc
                         ELSE pipe_op.before.stages[1]

IsLastStage ==
    /\ pipe_op.op = "_get_next_stage"
    /\ pipe_op.before.stages # <<>>
    /\ pipe_op.func = pipe_op.before.stages[Len(pipe_op.before.stages)]

C24_CallableFilters ==
    /\ pc # "unbuilt" => \A i \in 1..Len(transition_filters) : Callable(transition_filters[i])
    /\ raised.type # "TypeError"

(***************************************************************************)
(* Claims about ImmutableMixin and ImmutableDelay (SpecImmutable)          *)
(***************************************************************************)
ImmAccess == {"setattr", "delattr"}

CurrentLevels(logger_name) ==
    {log_prov[p].overrides[logger_name].level : p \in
        {q \in LogProviderIds : IsValidOverride(log_prov[q].overrides[logger_name], log_now)}}

\* C26: whenever the collection is queried for a logger, it reports the logger
\* as overridden exactly when at least one contained provider holds an
\* override for it that has not expired, and the level it returns is then
\* the lowest of those providers' levels, whatever was applied, removed or
\* queried on the providers before.
C26_CollectionCurrent ==
    log_op.op = "collection_query" =>
        /\ log_op.is_overridden <=> CurrentLevels(log_op.name) # {}
        /\ log_op.is_overridden => log_op.level = Lowest(CurrentLevels(log_op.name))

(***************************************************************************)
(* Claims about writing to a Config (SpecReadOnly)                         *)
(***************************************************************************)
\* C30: on a mutable Config, after config[key] = value or config.key = value,
\* for any key, get_conf_value(key) (and so config[key]) returns value and
\* key in config is true; and for every config and key, key in config is true
\* exactly when get_conf_value(key) without a default succeeds.
C30_WriteVisible ==
    [][/\ (conf_op'.op \in Assignments /\ ~conf_readonly[conf_op'.cfg]) =>
            LET got == GetConfValueResult(conf_dict', conf_providers', conf_op'.cfg,
                                          conf_op'.key, NOTSET, "none")
            IN  /\ got.exc = "none"
                /\ got.ret = conf_op'.arg
                /\ Contains(conf_dict', conf_providers', conf_op'.cfg, conf_op'.key)
       /\ \A c \in ConfigIds, key \in ConfKeys :
            Contains(conf_dict', conf_providers', c, key)
                <=> GetConfValueResult(conf_dict', conf_providers', c, key,
                                       NOTSET, "none").exc = "none"]_vars

(***************************************************************************)
(* Claims about AsExecutionContext (SpecAsCtx)                             *)
(***************************************************************************)
\* C8 as stated: after the exit of a block, by the end of its body or by an
\* exception, the stack holds exactly the contexts it held at entry, in the
\* same order, provided the body did not pop the context that was on top at
\* entry; a stack that was empty at entry is empty after exit.
C8_Original ==
    last_op.op = "exit" =>
        /\ last_op.blk.body # "top_removed" =>
              /\ last_op.exc = "none"
              /\ current_stack = last_op.blk.entry_stack
        /\ last_op.blk.entry_point = NotAContext => current_stack = <<>>

\* C8 as amended: the same, provided the body took none of the contexts the
\* stack held at entry off the stack, neither the one on top at entry nor
\* (with pop(index)) one below it.
C8_StackRestored ==
    last_op.op = "exit" =>
        /\ last_op.blk.body = "intact" =>
              /\ last_op.exc = "none"
              /\ current_stack = last_op.blk.entry_stack
        /\ last_op.blk.entry_point = NotAContext => current_stack = <<>>

\* An inner block, entered on a stack that was not empty, is left by an
\* exception and its exit takes the contexts above the entry point off again.
C8_Witness ==
    /\ last_op.op = "exit"
    /\ last_op.key = "exception"
    /\ last_op.blk.body = "intact"
    /\ last_op.blk.entry_stack # <<>>
    /\ last_op.popped # <<>>
    /\ blocks # <<>>
    /\ current_stack = last_op.blk.entry_stack

====
